---- MODULE Spec2Model ----
(***************************************************************************)
(* Model of the ask-maas citation expander: the crawl job pipeline         *)
(* (citation-expander/worker/jobs.py), its enqueue endpoint                *)
(* (citation-expander/app/main.py) and the allowlist                       *)
(* (citation-expander/libs/links.py).                                      *)
(*                                                                         *)
(* The specifications of the module share its actions and differ in the   *)
(* inputs they draw:                                                       *)
(*   SpecFetch  one call of fetch_url, one HTTP exchange per step          *)
(*   Spec, SpecDepth, SpecEmbed                                            *)
(*              the job queue, the workers running fetch_and_process_      *)
(*              citation, the dedup markers in Redis and the vector store  *)
(*   SpecUpsert a page stored again by a second job                        *)
(*   SpecChild  pages with up to four links                                *)
(*   SpecLinks  the links of a chunk recorded and read back                *)
(*   SpecSearch the vector store searched and swept as time passes         *)
(*   SpecCanon  canonicalize_url applied to pairs of urls                  *)
(*   SpecChunk  chunk_text applied to texts                                *)
(*   SpecRRF    _hybrid_search applied to lexical scores and dense results *)
(***************************************************************************)
EXTENDS Integers, Sequences, FiniteSets, TLC

VARIABLES
    \* ---- one fetch_url call (SpecFetch) ----
    f_pc,        \* "idle" | "request" | "stream" | "eof" | "done"
    f_url,       \* the url argument
    f_gets,      \* HTTP GET requests issued by this call (all hops, all attempts)
    f_hops,      \* redirects followed so far (len(response.history))
    f_retries,   \* retries used by the adapter on the current hop
    f_faults,    \* transient failures the server has produced in this call
    f_okseen,    \* some attempt of this call was answered without an error status
    f_cl,        \* Content-Length of the final response, NoHeader when absent
    f_total,     \* total_size
    f_result,    \* "none" | "ok" | "policy" | "toolarge" | "retryerr" | "httperr" |
                 \* "redirects" | "streamerr"
    metrics,     \* the Prometheus counters of app.main
    \* ---- the crawl pipeline (Spec) ----
    now,         \* the clock, in days
    marker,      \* Redis citation_processed:<sha256(url)>: url -> expiry time, 0 when absent
    lastMark,    \* history: url -> time of the last setex of its marker, -1 when never
    queue,       \* the RQ queue "citations": job ids, oldest first
    jobs,        \* every job ever enqueued, by id
    wk,          \* the workers: position in fetch_and_process_citation and its locals
    store,       \* the Qdrant collection: the points, keyed by citation id
    linkdb,      \* Redis citation_links:<parent_chunk_id>:<url> hashes
    \* ---- calls whose arguments and results are observed ----
    cz,          \* canonicalize_url: two urls, their canonical forms, and those of the forms
    ck,          \* chunk_text: the text, max_length, overlap and the chunks returned
    sr,          \* QdrantStorage.search: when the last search ran and the points it returned
    gl,          \* get_chunk_links: the chunk ids last asked for and the links returned
    rr,          \* _hybrid_search: the lexical scores, the dense result and the candidates
    rq,          \* ask-maas-api: one rerank, diversification or chat request and its outcome
    ex,          \* expand.py: one rerank_results or expand_context call and its outcome
    al,          \* libs/links.py: the allowlist file, ALLOWLIST_PATTERNS and the last call
    pg           \* ask-maas-api cache: the Redis page-index keys and the calls in flight

fvars == <<f_pc, f_url, f_gets, f_hops, f_retries, f_faults, f_okseen, f_cl,
           f_total, f_result>>
cvars == <<now, marker, lastMark, queue, jobs, wk, store, linkdb>>
pvars == <<cz, ck, sr, gl, rr, rq, ex, al, pg>>
\* the state of the crawl services
svars == <<fvars, metrics, cvars>>
vars == <<svars, pvars>>

----------------------------------------------------------------------------
(* Bounds of the model *)

\* transient failures (network error or 500/502/503/504) the server produces in one call
MaxFaults == 3
\* jobs ever enqueued in one behaviour of Spec, of SpecDepth and of SpecEmbed
MaxJobs == 2
MaxJobsDepth == 4
MaxJobsEmbed == 2
\* the clock of Spec stops here
MaxTime == 7
\* chunks chunk_text cuts a fetched page into, in SpecEmbed
MaxChunks == 2
\* jobs ever enqueued in one behaviour of SpecIdentity
MaxJobsIdentity == 2
\* jobs ever enqueued in one behaviour of SpecUpsert, and where its clock stops
MaxJobsUpsert == 2
MaxTimeUpsert == 3
\* citations submitted, and jobs ever enqueued, in one behaviour of SpecChild
MaxSeedsChild == 2
MaxJobsChild == 4
\* jobs ever enqueued in one behaviour of SpecLinks, and where its clock stops
MaxJobsLinks == 2
MaxTimeLinks == 7
\* jobs ever enqueued in one behaviour of SpecSearch, and where its clock stops
MaxJobsSearch == 1
MaxTimeSearch == 8

----------------------------------------------------------------------------
(* URLs.  A URL is the record urlparse() yields: scheme, host (netloc),    *)
(* path as a sequence of characters, query as the sequence of its          *)
(* "&"-separated parameters, and fragment.                                 *)

Url(s, h, p, q, f) == [scheme |-> s, host |-> h, path |-> p, query |-> q, fragment |-> f]

\* str.lower() on the tokens the model uses
Lower(s) ==
    CASE s = "HTTPS" -> "https"
      [] s = "HTTP" -> "http"
      [] s = "GITHUB.COM" -> "github.com"
      [] s = "A" -> "a"
      [] s = "B" -> "b"
      [] s = "B=2" -> "b=2"
      [] s = "A=1" -> "a=1"
      [] OTHER -> s

LowerSeq(q) == [i \in 1..Len(q) |-> Lower(q[i])]

\* str.rstrip("/") on a path
RECURSIVE RStripSlash(_)
RStripSlash(p) ==
    IF p # <<>> /\ p[Len(p)] = "/" THEN RStripSlash(SubSeq(p, 1, Len(p) - 1)) ELSE p

\* position of a query parameter in Python's string order
ParamRank(s) ==
    CASE s = "" -> 0
      [] s = "a=1" -> 1
      [] s = "b=2" -> 2
      [] OTHER -> 3

\* sorted(parsed.query.split("&")): insertion sort by string order
RECURSIVE InsertParam(_, _)
InsertParam(x, q) ==
    IF q = <<>> THEN <<x>>
    ELSE IF ParamRank(x) <= ParamRank(q[1]) THEN <<x>> \o q
    ELSE <<q[1]>> \o InsertParam(x, Tail(q))

RECURSIVE SortParams(_)
SortParams(q) == IF q = <<>> THEN <<>> ELSE InsertParam(q[1], SortParams(Tail(q)))

\* mutant: the query parameters are left in the order given
canonicalize_url_unsorted(u) ==
    LET path == LowerSeq(u.path)
    IN  Url(Lower(u.scheme), Lower(u.host),
            IF path = <<"/">> THEN path ELSE RStripSlash(path),
            LowerSeq(u.query),
            "")

\* jobs.py canonicalize_url
canonicalize_url(u) ==
    LET path == LowerSeq(u.path)
    IN  Url(Lower(u.scheme), Lower(u.host),
            IF path = <<"/">> THEN path ELSE RStripSlash(path),
            SortParams(LowerSeq(u.query)),
            "")

----------------------------------------------------------------------------
(* Allowlist (libs/links.py).  A pattern is the set of hosts it accepts    *)
(* and whether the regex requires the "/" that follows the host.           *)

\* the built-in patterns used when no config file supplies any
DefaultPatterns ==
    << [hosts |-> {"github.com", "www.github.com"}, slash |-> TRUE],   \* ^https?://(www\.)?github\.com/
       [hosts |-> {"docs.kuadrant.io"}, slash |-> FALSE],              \* ^https?://docs\.
       [hosts |-> {"arxiv.org", "www.arxiv.org"}, slash |-> TRUE] >>   \* ^https?://(www\.)?arxiv\.org/

\* patterns read from the ConfigMap file; none in the modelled deployment
ConfigPatterns == <<>>

load_allowlist_patterns == IF ConfigPatterns # <<>> THEN ConfigPatterns ELSE DefaultPatterns

\* pattern.search(url) with re.IGNORECASE
PatternMatches(p, u) ==
    /\ Lower(u.scheme) \in {"http", "https"}
    /\ Lower(u.host) \in p.hosts
    /\ p.slash => u.path # <<>>

is_url_allowed(u) ==
    LET patterns == load_allowlist_patterns
    IN  IF patterns = <<>> THEN TRUE
        ELSE \E i \in 1..Len(patterns) : PatternMatches(patterns[i], u)

----------------------------------------------------------------------------
(* The URLs of the model *)

UA  == Url("https", "github.com", <<"/", "a">>, <<>>, "")
UAf == Url("https", "github.com", <<"/", "a">>, <<>>, "s")      \* UA with a fragment
UG  == Url("https", "github.com", <<"/", "/">>, <<>>, "")       \* allowed as written, not once canonical
UB  == Url("https", "github.com", <<"/", "b">>, <<>>, "")
UC  == Url("https", "arxiv.org", <<"/", "c">>, <<>>, "")
UX  == Url("https", "blocked.com", <<"/", "x">>, <<>>, "")      \* not on the allowlist
UD  == Url("https", "github.com", <<"/", "d">>, <<>>, "")
UE  == Url("https", "github.com", <<"/", "e">>, <<>>, "")
UK  == Url("https", "github.com", <<"/", "a", ",", "b">>, <<>>, "")   \* a path with a comma

NoUrl == Url("", "", <<>>, <<>>, "")

----------------------------------------------------------------------------
(* Program constants of worker/jobs.py *)

MAX_CONTENT_SIZE == 512 * 1024
MAX_REDIRECTS == 2
TTL_DAYS == 7
\* Retry(total=2, ...) mounted on the session by create_http_session
RETRY_TOTAL == 2
\* response.iter_content(chunk_size=8192)
CHUNK_SIZE == 8192
\* requests.Session() keeps the library's max_redirects; create_http_session
\* never assigns MAX_REDIRECTS to it
SessionMaxRedirects == 30

NoHeader == -1

----------------------------------------------------------------------------
(* fetch_url, one HTTP exchange per step *)

\* the urls fetch_url is called with
FetchUrls == {UA, UG, UX}
\* Content-Length values of a 2xx response
ContentLengths == {NoHeader, MAX_CONTENT_SIZE, MAX_CONTENT_SIZE + 1}
\* sizes of the chunks iter_content yields: full chunks, then possibly a short last one
ChunkSizes == {1, CHUNK_SIZE}

Inc(m, k) == [m EXCEPT ![k] = @ + 1]

\* mutant: the allowlist is asked about the url as written
FetchPolicyOkRaw(u) == is_url_allowed(u)

\* jobs.py 86-89: the allowlist is asked about the canonical url
FetchPolicyOk(u) == is_url_allowed(canonicalize_url(u))

\* jobs.py 105-106
HeaderTooLarge(cl) == cl # NoHeader /\ cl > MAX_CONTENT_SIZE

\* mutant: the streamed size is checked one chunk late
StreamTooLargeLate(total) == total > MAX_CONTENT_SIZE + CHUNK_SIZE

\* jobs.py 119
StreamTooLarge(total) == total > MAX_CONTENT_SIZE

\* mutant: one retry too many
RetryAllowedOff(retries) == retries <= RETRY_TOTAL

\* urllib3 Retry(total=2): a failed attempt is retried while the budget lasts
RetryAllowed(retries) == retries < RETRY_TOTAL

\* jobs.py 91-92, 107-108, 120-121, 140-141: count the failure and raise
FetchFail(kind) ==
    /\ metrics' = Inc(metrics, "fetched_err")
    /\ f_result' = kind
    /\ f_pc' = "done"

\* fetch_url is entered: canonicalize, then the allowlist check (jobs.py 79-92)
FetchCall(u) ==
    /\ UNCHANGED <<cvars, pvars>>
    /\ f_pc = "idle"
    /\ f_url' = u
    /\ f_gets' = 0 /\ f_hops' = 0 /\ f_retries' = 0 /\ f_faults' = 0
    /\ f_okseen' = FALSE /\ f_cl' = NoHeader /\ f_total' = 0
    /\ IF FetchPolicyOk(u)
       THEN f_pc' = "request" /\ f_result' = "none" /\ UNCHANGED metrics
       ELSE FetchFail("policy")

\* session.get: the attempt fails with a network error or 500/502/503/504
RespTransient ==
    /\ UNCHANGED <<cvars, pvars>>
    /\ f_pc = "request"
    /\ f_faults < MaxFaults
    /\ f_gets' = f_gets + 1
    /\ f_faults' = f_faults + 1
    /\ IF RetryAllowed(f_retries)
       THEN /\ f_retries' = f_retries + 1
            /\ UNCHANGED <<f_pc, f_result, metrics>>
       ELSE /\ FetchFail("retryerr")
            /\ UNCHANGED f_retries
    /\ UNCHANGED <<f_url, f_hops, f_okseen, f_cl, f_total>>

\* session.get: a 4xx, or a 5xx outside the force list; raise_for_status raises
RespHttpError ==
    /\ UNCHANGED <<cvars, pvars>>
    /\ f_pc = "request"
    /\ f_gets' = f_gets + 1
    /\ FetchFail("httperr")
    /\ UNCHANGED <<f_url, f_hops, f_retries, f_faults, f_okseen, f_cl, f_total>>

\* session.get, allow_redirects=True: a 3xx with a Location header
RespRedirect ==
    /\ UNCHANGED <<cvars, pvars>>
    /\ f_pc = "request"
    /\ f_gets' = f_gets + 1
    /\ IF f_hops >= SessionMaxRedirects
       THEN /\ FetchFail("redirects")
            /\ UNCHANGED <<f_hops, f_retries>>
       ELSE /\ f_hops' = f_hops + 1
            /\ f_retries' = 0
            /\ UNCHANGED <<f_pc, f_result, metrics>>
    /\ UNCHANGED <<f_url, f_faults, f_okseen, f_cl, f_total>>

\* session.get: a response that raise_for_status accepts arrives; the Content-Length
\* check (jobs.py 102-108)
RespOk(cl) ==
    /\ UNCHANGED <<cvars, pvars>>
    /\ f_pc = "request"
    /\ f_gets' = f_gets + 1
    /\ f_okseen' = TRUE
    /\ f_cl' = cl
    /\ IF HeaderTooLarge(cl)
       THEN FetchFail("toolarge")
       ELSE f_pc' = "stream" /\ UNCHANGED <<f_result, metrics>>
    /\ UNCHANGED <<f_url, f_hops, f_retries, f_faults, f_total>>

\* one iteration of the iter_content loop (jobs.py 114-121)
StreamChunk(n) ==
    /\ UNCHANGED <<cvars, pvars>>
    /\ f_pc = "stream"
    /\ f_total' = f_total + n
    /\ IF StreamTooLarge(f_total + n)
       THEN FetchFail("toolarge")
       ELSE /\ f_pc' = IF n < CHUNK_SIZE THEN "eof" ELSE "stream"
            /\ UNCHANGED <<f_result, metrics>>
    /\ UNCHANGED <<f_url, f_gets, f_hops, f_retries, f_faults, f_okseen, f_cl>>

\* the connection breaks while the body is read: a RequestException (jobs.py 138-141)
StreamError ==
    /\ UNCHANGED <<cvars, pvars>>
    /\ f_pc = "stream"
    /\ FetchFail("streamerr")
    /\ UNCHANGED <<f_url, f_gets, f_hops, f_retries, f_faults, f_okseen, f_cl, f_total>>

\* the body ends: fetch_url returns its result (jobs.py 123-136)
StreamEnd ==
    /\ UNCHANGED <<cvars, pvars>>
    /\ f_pc \in {"stream", "eof"}
    /\ metrics' = Inc(metrics, "fetched_ok")
    /\ f_result' = "ok"
    /\ f_pc' = "done"
    /\ UNCHANGED <<f_url, f_gets, f_hops, f_retries, f_faults, f_okseen, f_cl, f_total>>

\* the pool of RQ workers
Workers == {"w1", "w2"}

IdleWorker == [pc |-> "idle", job |-> 0, final |-> NoUrl, links |-> <<>>, i |-> 0,
               nchunks |-> 0, stored |-> 0]

\* the urls pages link to
\* sorted(): "https://arxiv.org/c" < "https://github.com/a" < ".../a,b" < ".../b" < ".../d"
\* < ".../e"
LinkOrder == <<UC, UA, UK, UB, UD, UE>>
LinkUrls == {UC, UA, UB}
AllUrls == {UA, UAf, UX} \cup {LinkOrder[i] : i \in 1..Len(LinkOrder)}

InitCrawl ==
    /\ now = 0
    /\ marker = [u \in AllUrls |-> 0]
    /\ lastMark = [u \in AllUrls |-> -1]
    /\ queue = <<>>
    /\ jobs = <<>>
    /\ wk = [w \in Workers |-> IdleWorker]
    /\ store = {}
    /\ linkdb = {}

InitFetch ==
    /\ f_pc = "idle" /\ f_url = NoUrl
    /\ f_gets = 0 /\ f_hops = 0 /\ f_retries = 0 /\ f_faults = 0
    /\ f_okseen = FALSE /\ f_cl = NoHeader /\ f_total = 0
    /\ f_result = "none"

InitMetrics == metrics = [fetched_ok |-> 0, fetched_err |-> 0, embedded_ok |-> 0]

\* the services at start
InitServices == InitFetch /\ InitMetrics /\ InitCrawl

\* a function that is not called in a specification
Off == [pc |-> "off"]
InitPure ==
    cz = Off /\ ck = Off /\ sr = Off /\ gl = Off /\ rr = Off /\ rq = Off /\ ex = Off /\ al = Off /\ pg = Off

Init == InitServices /\ InitPure

NextFetch ==
    \/ \E u \in FetchUrls : FetchCall(u)
    \/ RespTransient
    \/ RespHttpError
    \/ RespRedirect
    \/ \E cl \in ContentLengths : RespOk(cl)
    \/ \E n \in ChunkSizes : StreamChunk(n)
    \/ StreamError
    \/ StreamEnd

SpecFetch == Init /\ [][NextFetch]_vars

----------------------------------------------------------------------------
(* The crawl pipeline: POST /enqueue and fetch_and_process_citation *)

\* the literal 2 of "if depth < 2" (jobs.py 321)
MAX_DEPTH == 2
\* parse_result["links"][:3] (jobs.py 325)
MAX_CHILDREN == 3

\* parent_doc_id and parent_chunk_id of the submitted citations
ParentDocs == {"d1"}
ParentChunks == {"k1"}
\* where a fetch of u ends: response.url of a fetch that is not redirected
FinalUrls(u) == {canonicalize_url(u)}

\* redis_client.exists(cache_key): the key is the sha256 of the url as given
MarkerLive(u) == marker[u] > now

\* history: when was u last marked as processed, seen from now
LastProcessed(u) ==
    IF lastMark[u] < 0 THEN "never"
    ELSE IF now < lastMark[u] + TTL_DAYS THEN "within_ttl"
    ELSE "ttl_elapsed"

\* history: some url with the canonical form of u has a live marker
CanonicalMarkerLive(u) ==
    \E v \in AllUrls : canonicalize_url(v) = canonicalize_url(u) /\ MarkerLive(v)

NewJob(u, pd, pk, d, origin) ==
    [url |-> u, doc |-> pd, chunk |-> pk, depth |-> d, origin |-> origin,
     dup |-> CanonicalMarkerLive(u), status |-> "queued", seen |-> "unknown",
     fetched |-> FALSE, embedded |-> FALSE, stored |-> 0, kids |-> 0]

\* app/main.py enqueue_citation: the job is put on the queue as submitted
enqueue_citation(u, pd, pk, d) ==
    /\ jobs' = Append(jobs, NewJob(u, pd, pk, d, "api"))
    /\ queue' = Append(queue, Len(jobs) + 1)
    /\ UNCHANGED <<now, marker, lastMark, wk, store, linkdb, metrics, fvars, pvars>>

\* mutant: the marker still counts at the instant it expires
DedupHitLate(u) == marker[u] >= now /\ marker[u] > 0

\* jobs.py 289: is the job skipped as recently processed
DedupHit(u) == MarkerLive(u)

\* a worker takes the oldest job; the recently-processed check (jobs.py 285-293)
Start(w) ==
    /\ wk[w].pc = "idle"
    /\ queue # <<>>
    /\ LET j == Head(queue)
           u == jobs[j].url
       IN  /\ queue' = Tail(queue)
           /\ IF DedupHit(u)
              THEN /\ jobs' = [jobs EXCEPT ![j].status = "cached",
                                           ![j].seen = LastProcessed(u)]
                   /\ UNCHANGED wk
              ELSE /\ jobs' = [jobs EXCEPT ![j].status = "running",
                                           ![j].seen = LastProcessed(u)]
                   /\ wk' = [wk EXCEPT ![w] = [IdleWorker EXCEPT !.pc = "fetch", !.job = j]]
    /\ UNCHANGED <<now, marker, lastMark, store, linkdb, metrics, fvars, pvars>>

\* the except branch of fetch_and_process_citation (jobs.py 350-359)
JobError(w, fetched) ==
    /\ jobs' = [jobs EXCEPT ![wk[w].job].status = "error", ![wk[w].job].fetched = fetched]
    /\ wk' = [wk EXCEPT ![w] = IdleWorker]

\* sorted(list(links)) of extract_links
SortedLinks(S) == SelectSeq(LinkOrder, LAMBDA u : u \in S)

\* step 1, fetch_url, fails: policy error, transport error or size cap (jobs.py 297)
FetchFails(w) ==
    /\ wk[w].pc = "fetch"
    /\ metrics' = Inc(metrics, "fetched_err")
    /\ JobError(w, FALSE)
    /\ UNCHANGED <<now, marker, lastMark, queue, store, linkdb, fvars, pvars>>

\* step 1 succeeds and step 2, parse_normalize, raises (jobs.py 297-304)
ParseFails(w) ==
    /\ wk[w].pc = "fetch"
    /\ FetchPolicyOk(jobs[wk[w].job].url)
    /\ metrics' = Inc(metrics, "fetched_ok")
    /\ JobError(w, TRUE)
    /\ UNCHANGED <<now, marker, lastMark, queue, store, linkdb, fvars, pvars>>

\* steps 1 and 2 succeed: the page ends at final, links to S and is n chunks long
\* (jobs.py 297-304; extract_links keeps allowed links other than the page itself)
FetchOk(w, final, S, n) ==
    /\ wk[w].pc = "fetch"
    /\ FetchPolicyOk(jobs[wk[w].job].url)
    /\ final \in FinalUrls(jobs[wk[w].job].url)
    /\ final \notin S
    /\ \A l \in S : is_url_allowed(l)
    /\ metrics' = Inc(metrics, "fetched_ok")
    /\ jobs' = [jobs EXCEPT ![wk[w].job].fetched = TRUE]
    /\ wk' = [wk EXCEPT ![w].pc = "embed", ![w].final = final,
                        ![w].links = SortedLinks(S), ![w].nchunks = n]
    /\ UNCHANGED <<now, marker, lastMark, queue, store, linkdb, fvars, pvars>>

\* sha256 of "{parent_chunk_id}:{url}:chunk_{chunk_idx}" (jobs.py 211) and the numeric
\* id QdrantStorage.upsert derives from it: equal exactly when the three parts are
citation_id(parent_chunk_id, url, chunk_idx) == <<parent_chunk_id, url, chunk_idx>>

\* mutant: the point is added, whatever the collection holds under its id
UpsertAdd(st, pt) == st \cup {pt}

\* QdrantStorage.upsert: the point with this citation id is written or replaced
Upsert(st, pt) == {q \in st : q.id # pt.id} \cup {pt}

RECURSIVE UpsertAll(_, _)
UpsertAll(st, pts) ==
    IF pts = {} THEN st
    ELSE LET pt == CHOOSE x \in pts : TRUE IN UpsertAll(Upsert(st, pt), pts \ {pt})

\* str.split(",") of a sequence of characters
RECURSIVE SplitComma(_)
SplitComma(cs) ==
    IF \E i \in DOMAIN cs : cs[i] = ","
    THEN LET i == CHOOSE k \in DOMAIN cs : cs[k] = "," /\ \A m \in 1..(k - 1) : cs[m] # ","
         IN  <<SubSeq(cs, 1, i - 1)>> \o SplitComma(SubSeq(cs, i + 1, Len(cs)))
    ELSE <<cs>>

\* the pieces of a link between its commas: a piece that is a url by itself is that
\* url, any other piece is the characters it is made of (links carry no query here)
UrlPieces(u) ==
    LET parts == SplitComma(u.path)
    IN  <<[u EXCEPT !.path = parts[1]]>> \o Tail(parts)

\* ",".join(links): the string is given by the pieces between its commas
RECURSIVE JoinComma(_)
JoinComma(links) ==
    IF links = <<>> THEN <<>> ELSE UrlPieces(links[1]) \o JoinComma(Tail(links))

\* the status embed_upsert returns (jobs.py 267)
EmbedStatus(stored) == IF stored > 0 THEN "success" ELSE "partial"

\* step 3, embed_upsert: the chunks in ok are embedded and upserted, the others fail
\* and are skipped; the links are recorded when a chunk was stored (jobs.py 209-271)
Embed(w, ok) ==
    /\ wk[w].pc = "embed"
    /\ ok \subseteq 1..wk[w].nchunks
    /\ LET j == jobs[wk[w].job]
           pts == {[id |-> citation_id(j.chunk, wk[w].final, c), source_url |-> wk[w].final,
                    chunk_index |-> c, depth |-> j.depth,
                    ttl_expires_at |-> now + TTL_DAYS] : c \in ok}
           stored == Cardinality(ok)
       IN  /\ store' = UpsertAll(store, pts)
           /\ linkdb' = IF stored > 0 /\ wk[w].links # <<>>
                        THEN {r \in linkdb : r.key # <<j.chunk, wk[w].final>>}
                             \cup {[key |-> <<j.chunk, wk[w].final>>,
                                    urls |-> SubSeq(wk[w].links, 1, IF Len(wk[w].links) < 10 THEN Len(wk[w].links) ELSE 10),
                                    value |-> JoinComma(SubSeq(wk[w].links, 1, IF Len(wk[w].links) < 10 THEN Len(wk[w].links) ELSE 10)),
                                    expires |-> now + TTL_DAYS]}
                        ELSE linkdb
           /\ metrics' = IF stored > 0 THEN Inc(metrics, "embedded_ok") ELSE metrics
           /\ jobs' = [jobs EXCEPT ![wk[w].job].stored = stored,
                                    ![wk[w].job].embedded = TRUE]
           /\ wk' = [wk EXCEPT ![w].pc = "mark", ![w].stored = stored]
    /\ UNCHANGED <<now, marker, lastMark, queue, fvars, pvars>>

\* the status fetch_and_process_citation returns after step 3 (jobs.py 342-348)
JobStatus(embed_status) == "success"

\* mutant: every link is looked at
NumChildLinksAll(links) == Len(links)

\* the links a job looks at: parse_result["links"][:3]
NumChildLinks(links) == IF Len(links) < MAX_CHILDREN THEN Len(links) ELSE MAX_CHILDREN

\* mutant: the depth test is off by one
FollowsLinksOff(depth, links) == depth <= MAX_DEPTH /\ links # <<>>

\* "if depth < 2 and parse_result.get("links")" (jobs.py 321)
FollowsLinks(depth, links) == depth < MAX_DEPTH /\ links # <<>>

\* the job returns its result (jobs.py 337-348)
Finished(w) ==
    [jobs EXCEPT ![wk[w].job].status = JobStatus(EmbedStatus(wk[w].stored))]

\* redis_client.setex(cache_key, TTL_DAYS * 86400, "1") (jobs.py 318), then the
\* decision to follow links (jobs.py 321); without links the job returns
Mark(w) ==
    /\ wk[w].pc = "mark"
    /\ LET j == jobs[wk[w].job]
       IN  /\ marker' = [marker EXCEPT ![j.url] = now + TTL_DAYS]
           /\ lastMark' = [lastMark EXCEPT ![j.url] = now]
           /\ IF FollowsLinks(j.depth, wk[w].links)
              THEN /\ wk' = [wk EXCEPT ![w].pc = "child", ![w].i = 1]
                   /\ UNCHANGED jobs
              ELSE /\ wk' = [wk EXCEPT ![w] = IdleWorker]
                   /\ jobs' = Finished(w)
    /\ UNCHANGED <<now, queue, store, linkdb, metrics, fvars, pvars>>

\* the depth a child job is enqueued with (jobs.py 333)
ChildDepth(depth) == depth + 1

\* one iteration of the child loop (jobs.py 325-335); after the last link the job returns
Child(w) ==
    /\ wk[w].pc = "child"
    /\ LET j == jobs[wk[w].job]
           link == wk[w].links[wk[w].i]
           last == wk[w].i >= NumChildLinks(wk[w].links)
           enq == ~MarkerLive(link)
           jobs1 == IF enq
                    THEN Append([jobs EXCEPT ![wk[w].job].kids = @ + 1],
                                NewJob(link, j.doc, j.chunk, ChildDepth(j.depth), "child"))
                    ELSE jobs
       IN  /\ queue' = IF enq THEN Append(queue, Len(jobs) + 1) ELSE queue
           /\ IF last
              THEN /\ jobs' = [jobs1 EXCEPT ![wk[w].job].status =
                                    JobStatus(EmbedStatus(wk[w].stored))]
                   /\ wk' = [wk EXCEPT ![w] = IdleWorker]
              ELSE /\ jobs' = jobs1
                   /\ wk' = [wk EXCEPT ![w].i = @ + 1]
    /\ UNCHANGED <<now, marker, lastMark, store, linkdb, metrics, fvars, pvars>>

\* time passes
Tick(d) ==
    /\ now' = now + d
    /\ UNCHANGED <<marker, lastMark, queue, jobs, wk, store, linkdb, metrics, fvars, pvars>>

\* The workers are interchangeable: an idle w2 takes a job only while w1 is busy.
MayStart(w) == w = "w1" \/ wk["w1"].pc # "idle"

\* what the workers do, whatever is submitted
WorkerNext(linkSets, chunkCounts) ==
    \/ \E w \in Workers : MayStart(w) /\ Start(w)
    \/ \E w \in Workers : FetchFails(w)
    \/ \E w \in Workers : ParseFails(w)
    \/ \E w \in Workers, u \in AllUrls, S \in linkSets, n \in chunkCounts :
          FetchOk(w, u, S, n)
    \/ \E w \in Workers, ok \in SUBSET chunkCounts : Embed(w, ok)
    \/ \E w \in Workers : Mark(w)

\* Spec: citations are submitted at depth 0 for one page under two spellings, pages
\* are one chunk long and link to that page or to another, and time passes
TickDays == {3, 4}
Next ==
    \/ \E u \in {UA, UAf}, pd \in ParentDocs, pk \in ParentChunks :
          Len(jobs) < MaxJobs /\ enqueue_citation(u, pd, pk, 0)
    \/ WorkerNext(SUBSET {UA, UB}, {1})
    \/ \E w \in Workers : Len(jobs) < MaxJobs /\ Child(w)
    \/ \E d \in TickDays : now + d <= MaxTime /\ Tick(d)

Spec == Init /\ [][Next]_vars

\* SpecDepth: one citation is submitted, at depth 0 or beyond MAX_DEPTH, pages link
\* to any of three pages, and no marker expires
NextDepth ==
    \/ \E u \in {UAf, UX}, pd \in ParentDocs, pk \in ParentChunks, d \in {0, MAX_DEPTH + 1} :
          jobs = <<>> /\ enqueue_citation(u, pd, pk, d)
    \/ WorkerNext(SUBSET LinkUrls, {1})
    \/ \E w \in Workers : Len(jobs) < MaxJobsDepth /\ Child(w)

SpecDepth == Init /\ [][NextDepth]_vars

\* SpecEmbed: citations are submitted for pages without links that are cut into up
\* to MaxChunks chunks, each of which may fail to embed or to upsert
NextEmbed ==
    \/ \E u \in {UA, UB}, pd \in ParentDocs, pk \in ParentChunks :
          Len(jobs) < MaxJobsEmbed /\ enqueue_citation(u, pd, pk, 0)
    \/ WorkerNext({{}}, 1..MaxChunks)

SpecEmbed == Init /\ [][NextEmbed]_vars

\* SpecUpsert: a page without links, cut into one or two chunks, is submitted
\* under two spellings and time passes
NextUpsert ==
    \/ \E u \in {UA, UAf}, pd \in ParentDocs, pk \in ParentChunks :
          Len(jobs) < MaxJobsUpsert /\ enqueue_citation(u, pd, pk, 0)
    \/ WorkerNext({{}}, {1, 2})
    \/ \E d \in TickDays : now + d <= MaxTimeUpsert /\ Tick(d)

SpecUpsert == Init /\ [][NextUpsert]_vars

\* SpecIdentity: one page without links is cited from two parent chunks
NextIdentity ==
    \/ \E pd \in ParentDocs, pk \in {"k1", "k2"} :
          Len(jobs) < MaxJobsIdentity /\ enqueue_citation(UA, pd, pk, 0)
    \/ WorkerNext({{}}, {1})

SpecIdentity == Init /\ [][NextIdentity]_vars

\* SpecChild: two citations are submitted at depth 0; a page has no links, two links
\* or four
NextChild ==
    \/ \E u \in {UA, UB}, pd \in ParentDocs, pk \in ParentChunks :
          Len(jobs) < MaxSeedsChild /\ enqueue_citation(u, pd, pk, 0)
    \/ WorkerNext({{}, {UB, UC}, {UB, UC, UD, UE}}, {1})
    \/ \E w \in Workers : Len(jobs) < MaxJobsChild /\ Child(w)

SpecChild == Init /\ [][NextChild]_vars

\* expand.py get_chunk_links: for each chunk id the hash at "citation_links:" + chunk_id
\* is read, and its "urls" field, split at the commas, is the chunk's link list; a key
\* that is absent or expired gives no entry
get_chunk_links(chunk_ids) ==
    /\ LET found == {c \in chunk_ids : \E r \in linkdb : r.key = c /\ now < r.expires}
           data(c) == CHOOSE r \in linkdb : r.key = c
       IN  gl' = [pc |-> "done", ids |-> chunk_ids,
                  result |-> [c \in found |-> data(c).value]]
    /\ UNCHANGED <<svars, cz, ck, sr, rr, rq, ex, al, pg>>

\* the chunk ids get_chunk_links is asked for: a parent chunk's id, and the key under
\* which embed_upsert records links, "{parent_chunk_id}:{url}"
ChunkKeys == {<<pk>> : pk \in ParentChunks} \cup {<<pk, UA>> : pk \in ParentChunks}

\* SpecLinks: a page with up to two links is crawled and stored, time passes, and the
\* links of chunks are read
NextLinks ==
    \/ \E u \in {UA}, pd \in ParentDocs, pk \in ParentChunks :
          jobs = <<>> /\ enqueue_citation(u, pd, pk, 0)
    \/ WorkerNext({{}, {UB}, {UK, UB}}, {1})
    \/ \E w \in Workers : Len(jobs) < MaxJobsLinks /\ Child(w)
    \/ \E d \in TickDays : now + d <= MaxTimeLinks /\ Tick(d)
    \/ \E ids \in SUBSET ChunkKeys : get_chunk_links(ids)

SpecLinks == Init /\ [][NextLinks]_vars

\* QdrantStorage.search: the limit nearest points among those whose source_url is one
\* of filter_urls (all points when no filter is given); which points are nearest
\* depends on the query vector
Search(filter_urls, limit) ==
    /\ LET matching == {p \in store : filter_urls = {} \/ p.source_url \in filter_urls}
           n == IF Cardinality(matching) < limit THEN Cardinality(matching) ELSE limit
       IN  \E H \in SUBSET matching :
              /\ Cardinality(H) = n
              /\ sr' = [pc |-> "done", at |-> now, hits |-> H]
    /\ UNCHANGED <<svars, cz, ck, gl, rr, rq, ex, al, pg>>

\* QdrantStorage.cleanup_expired: the points with ttl_expires_at < now are deleted
cleanup_expired ==
    /\ store' = {p \in store : ~(p.ttl_expires_at < now)}
    /\ UNCHANGED <<now, marker, lastMark, queue, jobs, wk, linkdb, metrics, fvars, pvars>>

\* SpecSearch: a page is crawled and stored, time passes, the collection is searched
\* and swept
NextSearch ==
    \/ \E u \in {UA, UB}, pd \in ParentDocs, pk \in ParentChunks :
          Len(jobs) < MaxJobsSearch /\ enqueue_citation(u, pd, pk, 0)
    \/ WorkerNext({{}}, {1})
    \/ \E d \in TickDays : now + d <= MaxTimeSearch /\ Tick(d)
    \/ \E F \in {{}, {UA}}, limit \in {1, 10} : Search(F, limit)
    \/ cleanup_expired

SpecSearch == Init /\ [][NextSearch]_vars

----------------------------------------------------------------------------
(* Claims about the crawl pipeline *)

\* C1 (SpecDepth): when every job submitted through the endpoint has depth 0, every
\* job ever enqueued, seed or child, has depth 0, 1 or 2.
C1_DepthBound ==
    (\A i \in DOMAIN jobs : jobs[i].origin = "api" => jobs[i].depth = 0)
        => \A i \in DOMAIN jobs : jobs[i].depth \in 0..MAX_DEPTH

\* a child at depth 2 stored a page that has links, and returned
C1_Witness ==
    \E i \in DOMAIN jobs :
        /\ jobs[1].depth = 0
        /\ jobs[i].origin = "child" /\ jobs[i].depth = MAX_DEPTH
        /\ jobs[i].status = "success"
        /\ \E r \in linkdb : r.key = <<jobs[i].chunk, canonicalize_url(jobs[i].url)>>
                             /\ r.urls # <<>>

\* C2 (Spec): no job is enqueued, by the endpoint or as a child, for a url whose
\* canonical form has a live processed marker.
C2_NoEnqueueWhileMarked == \A i \in DOMAIN jobs : ~jobs[i].dup

\* C3 (Spec): a job that starts less than TTL_DAYS after its url was marked as
\* processed returns "cached" without fetching, embedding, storing or enqueueing;
\* a job that starts later, or for a url never marked, is not skipped.
C3_DedupWithinTtl ==
    \A i \in DOMAIN jobs :
        /\ jobs[i].seen = "within_ttl" =>
              /\ jobs[i].status = "cached"
              /\ ~jobs[i].fetched /\ ~jobs[i].embedded
              /\ jobs[i].stored = 0 /\ jobs[i].kids = 0
        /\ jobs[i].seen \in {"never", "ttl_elapsed"} => jobs[i].status # "cached"

\* a url is processed a second time, by a job that started after the TTL had elapsed
C3_Witness ==
    \E i, k \in DOMAIN jobs :
        /\ i < k /\ jobs[i].url = jobs[k].url
        /\ jobs[i].status = "success"
        /\ jobs[k].seen = "ttl_elapsed" /\ jobs[k].status = "success"

\* C4 (Spec): two workers never both hold a job for the same url past the
\* recently-processed check.
C4_OneWorkerPerUrl ==
    \A v, w \in Workers :
        (v # w /\ wk[v].pc # "idle" /\ wk[w].pc # "idle")
            => jobs[wk[v].job].url # jobs[wk[w].job].url

\* C5 (SpecEmbed): a job that went through embed_upsert ends "success" exactly when
\* at least one of its chunks was stored.
C5_StoredOrFailed ==
    \A i \in DOMAIN jobs :
        (jobs[i].embedded /\ jobs[i].status \in {"success", "error"})
            => (jobs[i].status = "success" <=> jobs[i].stored > 0)

\* C6 (SpecDepth): no job deeper than MAX_DEPTH is enqueued as a child, and one
\* submitted that deep is skipped: it is never fetched and stores nothing.
C6_DepthGate ==
    \A i \in DOMAIN jobs :
        jobs[i].depth > MAX_DEPTH =>
            /\ jobs[i].origin = "api"
            /\ jobs[i].status \in {"queued", "cached"}
            /\ ~jobs[i].fetched /\ jobs[i].stored = 0

\* C11 (SpecEmbed): a job one of whose stages failed (fetch, normalize, or embed/upsert
\* with no chunk stored) ends with an error result and leaves the other jobs alone:
\* a job is skipped as already processed only if a job for its url stored a chunk.
C11_FailureIsLocal ==
    /\ \A i \in DOMAIN jobs :
          (jobs[i].embedded /\ jobs[i].stored = 0 /\ jobs[i].status # "running")
              => jobs[i].status = "error"
    /\ \A k \in DOMAIN jobs :
          jobs[k].status = "cached"
              => \E i \in DOMAIN jobs : /\ i # k
                                        /\ jobs[i].url = jobs[k].url
                                        /\ jobs[i].stored > 0

\* the citation ids of the points stored for a parent chunk and url
PointIds(st, parent_chunk_id, url) ==
    {p.id : p \in {q \in st : q.id[1] = parent_chunk_id /\ q.id[2] = url}}

\* C15 (SpecUpsert): when embed_upsert stores every chunk of a text whose chunks an earlier
\* run stored for the same parent chunk id and url, the ids it writes are the ids
\* already stored, and the collection holds as many points, under the same ids, after
\* the run as before it.
C15_IdempotentUpsert ==
    [][\A w \in Workers :
          LET pk == jobs[wk[w].job].chunk
              url == wk[w].final
              ids == {citation_id(pk, url, c) : c \in 1..wk[w].nchunks}
          IN  (/\ wk[w].pc = "embed" /\ wk'[w].pc = "mark"
               /\ wk'[w].stored = wk[w].nchunks
               /\ PointIds(store, pk, url) = ids)
                  => /\ PointIds(store', pk, url) = ids
                     /\ {p.id : p \in store'} = {p.id : p \in store}
                     /\ Cardinality(store') = Cardinality(store)]_vars

\* a page of two chunks was stored by two jobs, the second days after the first, and
\* the collection holds two points for it, those the second run wrote
C15_Witness ==
    \E i, k \in DOMAIN jobs :
        /\ i # k /\ jobs[i].chunk = jobs[k].chunk
        /\ canonicalize_url(jobs[i].url) = canonicalize_url(jobs[k].url)
        /\ jobs[i].status = "success" /\ jobs[i].stored = 2
        /\ jobs[k].status = "success" /\ jobs[k].stored = 2
        /\ Cardinality(store) = 2
        /\ \A p \in store :
              /\ p.id \in {citation_id(jobs[i].chunk, canonicalize_url(jobs[i].url), c) :
                                c \in 1..2}
              /\ p.ttl_expires_at > TTL_DAYS

\* C17 (SpecChild): a job looks at no more than its first MAX_CHILDREN links and
\* enqueues at most MAX_CHILDREN children, and whenever the child loop enqueues a
\* job, that job has the parent's depth plus one, the parent's
\* parent_doc_id and parent_chunk_id, and a url without a live processed marker.
C17_ChildBound ==
    [][\A w \in Workers :
          (wk[w].pc = "child" /\ wk'[w] # wk[w])
              => LET parent == jobs[wk[w].job]
                     child == jobs'[Len(jobs')]
                 IN  /\ wk[w].i <= MAX_CHILDREN
                     /\ wk'[w].pc = "child" => wk'[w].i <= MAX_CHILDREN
                     /\ jobs'[wk[w].job].kids <= MAX_CHILDREN
                     /\ Len(jobs') \in {Len(jobs), Len(jobs) + 1}
                     /\ Len(jobs') > Len(jobs) =>
                           /\ jobs'[wk[w].job].kids = parent.kids + 1
                           /\ child.origin = "child"
                           /\ child.depth = parent.depth + 1
                           /\ child.doc = parent.doc /\ child.chunk = parent.chunk
                           /\ child.url = wk[w].links[wk[w].i]
                           /\ ~MarkerLive(child.url)]_vars

\* a page with four links was stored while the second of them had a live marker: the
\* job enqueued the first and the third and never looked at the fourth
C17_Witness ==
    \E i \in DOMAIN jobs, r \in linkdb :
        /\ jobs[i].status = "success" /\ jobs[i].kids = 2
        /\ r.key = <<jobs[i].chunk, canonicalize_url(jobs[i].url)>>
        /\ Len(r.urls) = 4
        /\ MarkerLive(r.urls[2])
        /\ \E k \in DOMAIN jobs : jobs[k].origin = "child" /\ jobs[k].url = r.urls[1]
        /\ \E k \in DOMAIN jobs : jobs[k].origin = "child" /\ jobs[k].url = r.urls[3]
        /\ \A k \in DOMAIN jobs : jobs[k].url # r.urls[4]

\* C18 (Spec): a job that enqueued a child stored at least one chunk.
C18_ChildrenOnlyOnStored ==
    \A i \in DOMAIN jobs : jobs[i].kids > 0 => jobs[i].stored > 0

\* C19 (SpecLinks): when get_chunk_links is asked for a key under which links were
\* recorded less than TTL_DAYS ago, the list it returns for that key is the list of
\* links that was recorded.
C19_LinkRoundTrip ==
    [][gl' # gl =>
          \A r \in linkdb :
              (r.key \in gl'.ids /\ now < r.expires)
                  => /\ r.key \in DOMAIN gl'.result
                     /\ gl'.result[r.key] = r.urls]_vars

\* C16 (SpecSearch): every point a search returns has ttl_expires_at not earlier than
\* the time of the search, whether or not cleanup_expired has run since it expired.
C16_NoExpiredHits ==
    sr.pc = "done" => \A p \in sr.hits : p.ttl_expires_at >= sr.at

----------------------------------------------------------------------------
(* Claims about fetch_url, checked under SpecFetch *)

\* C7: a url whose canonical form fails the allowlist makes fetch_url fail with the
\* policy error, with no HTTP GET issued by the call and fetched_err incremented.
C7_PolicyBeforeNetwork ==
    (f_pc # "idle" /\ ~is_url_allowed(canonicalize_url(f_url)))
        => /\ f_pc = "done"
           /\ f_result = "policy"
           /\ f_gets = 0
           /\ metrics.fetched_err = 1
           /\ metrics.fetched_ok = 0

\* a url the allowlist accepts as written but not in canonical form was rejected
C7_Witness == f_url = UG /\ f_result = "policy"

\* C8: the fetch fails whenever Content-Length or the streamed total exceeds the cap,
\* and a fetch that returns has read at most MAX_CONTENT_SIZE bytes.
C8_SizeCap ==
    /\ f_result = "ok" => f_total <= MAX_CONTENT_SIZE /\ ~(f_cl # NoHeader /\ f_cl > MAX_CONTENT_SIZE)
    /\ f_total > MAX_CONTENT_SIZE => f_result = "toolarge" /\ metrics.fetched_err = 1
    /\ (f_cl # NoHeader /\ f_cl > MAX_CONTENT_SIZE) => f_result = "toolarge" /\ f_total = 0

\* the streamed body passed the cap although the header did not announce it
C8_Witness == f_result = "toolarge" /\ f_total > MAX_CONTENT_SIZE /\ f_cl = MAX_CONTENT_SIZE

\* C9: a fetch that succeeds has followed at most MAX_REDIRECTS redirects.
C9_RedirectCap == f_result = "ok" => f_hops <= MAX_REDIRECTS

MaxJobsRedirect == 2
\* where the server may send a fetch: another allowed page, or a page off the allowlist
RedirectTargets == {UB, UX}

\* steps 1 and 2 succeed after session.get(allow_redirects=True) followed a redirect:
\* the "url" of the result is response.url, the page is n chunks long and has no
\* links (jobs.py 95-136, 297-304)
FetchRedirected(w, final, n) ==
    /\ wk[w].pc = "fetch"
    /\ FetchPolicyOk(jobs[wk[w].job].url)
    /\ final \in RedirectTargets
    /\ final # canonicalize_url(jobs[wk[w].job].url)
    /\ metrics' = Inc(metrics, "fetched_ok")
    /\ jobs' = [jobs EXCEPT ![wk[w].job].fetched = TRUE]
    /\ wk' = [wk EXCEPT ![w].pc = "embed", ![w].final = final,
                        ![w].links = <<>>, ![w].nchunks = n]
    /\ UNCHANGED <<now, marker, lastMark, queue, store, linkdb, fvars, pvars>>

\* SpecRedirect: citations of two allowed pages are submitted; a fetch ends at the
\* page asked for or is redirected
NextRedirect ==
    \/ \E u \in {UA, UB}, pd \in ParentDocs, pk \in ParentChunks :
          Len(jobs) < MaxJobsRedirect /\ enqueue_citation(u, pd, pk, 0)
    \/ WorkerNext({{}}, {1})
    \/ \E w \in Workers, final \in AllUrls : FetchRedirected(w, final, 1)

SpecRedirect == Init /\ [][NextRedirect]_vars

\* C36 (SpecRedirect): every point in the collection has a source_url that passes the
\* allowlist, also when the fetch was redirected and the url stored is the final one.
C36_StoredUrlsAllowed ==
    \A p \in store : is_url_allowed(p.source_url)


\* C35 (SpecEmbed): a url has a live processed marker only if some job for that url
\* completed with at least one chunk stored; a job that failed or stored nothing
\* leaves no marker behind.
C35_MarkerMeansStored ==
    \A u \in AllUrls :
        MarkerLive(u) =>
            \E i \in DOMAIN jobs :
                jobs[i].url = u /\ jobs[i].status = "success" /\ jobs[i].stored > 0


----------------------------------------------------------------------------
(* SpecCanon: canonicalize_url applied to two drawn urls, then to the      *)
(* canonical form of the first.  A canonical record stands for the string  *)
(* urlunparse makes of it: urlparse takes that string back to the record.   *)

\* the longest path drawn, in characters
MaxPathLen == 2

\* urlparse of a url with a host yields a path that is empty or starts with "/"
CanonPaths ==
    {<<>>} \cup {p \in UNION {[1..n -> {"/", "a"}] : n \in 1..MaxPathLen} : p[1] = "/"}
CanonQueries == {<<>>, <<"a=1", "b=2">>, <<"b=2", "a=1">>}
CanonUrls ==
    {Url(s, h, p, q, f) : s \in {"https", "HTTPS"}, h \in {"github.com", "GITHUB.COM"},
                          p \in CanonPaths, q \in CanonQueries, f \in {"", "s"}}

InitCanon ==
    /\ InitServices
    /\ \E u \in CanonUrls, v \in CanonUrls :
          cz = [pc |-> "drawn", u |-> u, v |-> v, cu |-> NoUrl, cv |-> NoUrl, ccu |-> NoUrl]
    /\ ck = Off /\ sr = Off /\ gl = Off /\ rr = Off /\ rq = Off /\ ex = Off /\ al = Off /\ pg = Off

\* canonicalize_url(u) and canonicalize_url(v)
Canonicalize ==
    /\ cz.pc = "drawn"
    /\ cz' = [cz EXCEPT !.pc = "once", !.cu = canonicalize_url(cz.u),
                        !.cv = canonicalize_url(cz.v)]
    /\ UNCHANGED <<svars, ck, sr, gl, rr, rq, ex, al, pg>>

\* canonicalize_url(canonicalize_url(u))
Recanonicalize ==
    /\ cz.pc = "once"
    /\ cz' = [cz EXCEPT !.pc = "twice", !.ccu = canonicalize_url(cz.cu)]
    /\ UNCHANGED <<svars, ck, sr, gl, rr, rq, ex, al, pg>>

NextCanon == Canonicalize \/ Recanonicalize

SpecCanon == InitCanon /\ [][NextCanon]_vars

\* q and r hold the same query parameters, each as often
SameParams(q, r) ==
    /\ Len(q) = Len(r)
    /\ \A i \in DOMAIN q :
          Cardinality({k \in DOMAIN q : q[k] = q[i]}) = Cardinality({k \in DOMAIN r : r[k] = q[i]})

DifferInQueryOrder(u, v) ==
    [u EXCEPT !.query = <<>>] = [v EXCEPT !.query = <<>>] /\ SameParams(u.query, v.query)

DifferInSchemeHostCase(u, v) ==
    /\ [u EXCEPT !.scheme = "", !.host = ""] = [v EXCEPT !.scheme = "", !.host = ""]
    /\ Lower(u.scheme) = Lower(v.scheme) /\ Lower(u.host) = Lower(v.host)

DifferInFragment(u, v) == [u EXCEPT !.fragment = ""] = [v EXCEPT !.fragment = ""]

DifferInTrailingSlash(u, v) ==
    /\ [u EXCEPT !.path = <<>>] = [v EXCEPT !.path = <<>>]
    /\ u.path \in {v.path, v.path \o <<"/">>} \/ v.path = u.path \o <<"/">>

C13_SameCanonicalForm ==
    (cz.pc \in {"once", "twice"}
       /\ \/ DifferInFragment(cz.u, cz.v)
          \/ DifferInTrailingSlash(cz.u, cz.v)
          \/ DifferInQueryOrder(cz.u, cz.v))
        => cz.cu = cz.cv

----------------------------------------------------------------------------
(* SpecChunk: chunk_text applied to a drawn text.  A text is a sequence of *)
(* characters; positions are counted from 0 as in Python.                  *)

\* the longest text drawn, in characters
MaxTextLen == 8

\* max_length (odd, so that max_length // 2 rounds) and overlap, scaled down from
\* chunk_text(text, max_length=400, overlap=50)
ChunkMaxLens == {5, 7}
ChunkOverlaps == {1, 2}

Texts == UNION {[1..n -> {"x", ".", " ", "\n"}] : n \in 0..MaxTextLen}

Max(S) == CHOOSE x \in S : \A y \in S : y <= x

\* the sentence end markers, in the order chunk_text tries them
Markers == << <<".", " ">>, <<"\n", "\n">>, <<"\n">>, <<"!", " ">>, <<"?", " ">> >>

\* len(marker.rstrip())
RStripLen(m) == Max({0} \cup {i \in DOMAIN m : m[i] \notin {" ", "\n"}})

\* text.rfind(marker, start, end), for 0 <= end <= len(text); a negative start counts
\* from the end of the text, as in a slice
RFind(text, m, start, end) ==
    LET from == IF start >= 0 THEN start ELSE Max({0, start + Len(text)})
        S == {i \in from..(end - Len(m)) : SubSeq(text, i + 1, i + Len(m)) = m}
    IN  IF S = {} THEN -1 ELSE Max(S)

\* the marker loop from marker number k on (jobs.py 177-181)
RECURSIVE BoundaryEnd(_, _, _, _, _)
BoundaryEnd(text, maxLen, start, end, k) ==
    IF k > Len(Markers) THEN end
    ELSE LET last_marker == RFind(text, Markers[k], start, end)
         IN  IF last_marker # -1 /\ last_marker > start + (maxLen \div 2)
             THEN last_marker + RStripLen(Markers[k])
             ELSE BoundaryEnd(text, maxLen, start, end, k + 1)

\* where the chunk that starts at start ends (jobs.py 172-181)
ChunkEnd(text, maxLen, start) ==
    LET end == IF start + maxLen < Len(text) THEN start + maxLen ELSE Len(text)
    IN  IF end < Len(text) THEN BoundaryEnd(text, maxLen, start, end, 1) ELSE end

\* mutant: the next window starts at the cut
NextStartAtCut(text, end, overlap) == end

\* "start = end - overlap if end < len(text) else end" (jobs.py 184)
NextStart(text, end, overlap) == IF end < Len(text) THEN end - overlap ELSE end

\* the while loop from start on (jobs.py 171-184)
RECURSIVE ChunkLoop(_, _, _, _)
ChunkLoop(text, maxLen, overlap, start) ==
    IF start >= Len(text) THEN <<>>
    ELSE LET end == ChunkEnd(text, maxLen, start)
         IN  <<SubSeq(text, start + 1, end)>>
                 \o ChunkLoop(text, maxLen, overlap, NextStart(text, end, overlap))

\* jobs.py chunk_text
chunk_text(text, maxLen, overlap) ==
    IF Len(text) <= maxLen THEN <<text>> ELSE ChunkLoop(text, maxLen, overlap, 0)

InitChunk ==
    /\ InitServices
    /\ cz = Off /\ sr = Off /\ gl = Off /\ rr = Off /\ rq = Off /\ ex = Off /\ al = Off /\ pg = Off
    /\ \E t \in Texts, m \in ChunkMaxLens, o \in ChunkOverlaps :
          ck = [pc |-> "drawn", text |-> t, maxLen |-> m, overlap |-> o,
                chunks |-> <<>>]

ChunkText ==
    /\ ck.pc = "drawn"
    /\ ck' = [ck EXCEPT !.pc = "done", !.chunks = chunk_text(ck.text, ck.maxLen, ck.overlap)]
    /\ UNCHANGED <<svars, cz, sr, gl, rr, rq, ex, al, pg>>

SpecChunk == InitChunk /\ [][ChunkText]_vars

\* the first chunk followed by every later chunk without its first overlap characters
RECURSIVE Reassemble(_, _)
Reassemble(chunks, overlap) ==
    IF Len(chunks) <= 1 THEN (IF chunks = <<>> THEN <<>> ELSE chunks[1])
    ELSE Reassemble(SubSeq(chunks, 1, Len(chunks) - 1), overlap)
             \o SubSeq(chunks[Len(chunks)], overlap + 1, Len(chunks[Len(chunks)]))

RECURSIVE StartOf(_, _, _)
StartOf(chunks, overlap, j) ==
    IF j = 1 THEN 0 ELSE StartOf(chunks, overlap, j - 1) + Len(chunks[j - 1]) - overlap

\* C30 (SpecChunk): a chunk whose window ends before the end of the text is cut at the
\* marker occurrence nearest to the window's end, over all marker kinds, among those
\* later than maxLen/2 into the window, and at the window's end if there is none.
C30_CutAtNearestBoundary ==
    ck.pc = "done" =>
        \A j \in DOMAIN ck.chunks :
            LET start == StartOf(ck.chunks, ck.overlap, j)
                end == start + ck.maxLen
                occ == {<<i, k>> \in (start..end) \X DOMAIN Markers :
                           /\ i + Len(Markers[k]) <= end
                           /\ SubSeq(ck.text, i + 1, i + Len(Markers[k])) = Markers[k]
                           /\ 2 * (i - start) > ck.maxLen}
                nearest == {o \in occ : \A p \in occ : p[1] <= o[1]}
            IN  (Len(ck.text) > ck.maxLen /\ end < Len(ck.text)) =>
                    IF occ = {} THEN Len(ck.chunks[j]) = ck.maxLen
                    ELSE \E o \in nearest :
                            start + Len(ck.chunks[j]) = o[1] + RStripLen(Markers[o[2]])

----------------------------------------------------------------------------
(* SpecRRF: RetrievalService._hybrid_search (ask-maas-api) applied to the  *)
(* BM25 scores of a page's chunks and the FAISS result for the query.      *)
(* Chunks are numbered from 0 as in chunks[idx]; a fused score is the      *)
(* fraction num / den.                                                     *)

\* the most chunks a page index holds
MaxRRFChunks == 3
\* "k = 60  # RRF constant"
RRF_K == 60
\* settings.RETRIEVAL_TOP_K: below and above the number of chunks (the default is 20)
RetrievalTopKs == {2, 20}

\* the sequences in which each of the chunks S occurs once
Orderings(S) ==
    {p \in [1..Cardinality(S) -> S] : \A i, j \in 1..Cardinality(S) : i # j => p[i] # p[j]}

\* np.argsort(lexical_scores)[::-1]: the chunks by descending score, ties in any order
ArgsortDesc(lex) ==
    {p \in Orderings(0..(Len(lex) - 1)) :
        \A i, j \in DOMAIN p : i < j => lex[p[i] + 1] >= lex[p[j] + 1]}

\* faiss_index.search(query, k): the k nearest chunks, nearest first
DenseResults(n, k) == UNION {Orderings(S) : S \in {T \in SUBSET (0..(n - 1)) : Cardinality(T) = k}}

\* position of idx in the lexical order, len(chunks) when it is not there (retrieval.py 184-185)
LexicalRank(order, idx) ==
    IF \E i \in DOMAIN order : order[i] = idx
    THEN (CHOOSE i \in DOMAIN order : order[i] = idx) - 1
    ELSE Len(order)

\* mutant: the ranks are taken as they are, without the + 1
rrf_score_rank0(i, lexical_rank) ==
    [num |-> (RRF_K + lexical_rank) + (RRF_K + i),
     den |-> (RRF_K + i) * (RRF_K + lexical_rank)]

\* "(1 / (k + i + 1)) + (1 / (k + lexical_rank + 1))" (retrieval.py 187)
rrf_score(i, lexical_rank) ==
    [num |-> (RRF_K + lexical_rank + 1) + (RRF_K + i + 1),
     den |-> (RRF_K + i + 1) * (RRF_K + lexical_rank + 1)]

\* a / b >= c / d
ScoreGeq(x, y) == x.num * y.den >= y.num * x.den

\* sorted(candidates, key=score, reverse=True): stable, by insertion from the right
RECURSIVE InsertByScore(_, _)
InsertByScore(c, cs) ==
    IF cs = <<>> THEN <<c>>
    ELSE IF ScoreGeq(c.score, cs[1].score) THEN <<c>> \o cs
    ELSE <<cs[1]>> \o InsertByScore(c, Tail(cs))

RECURSIVE SortByScore(_)
SortByScore(cs) == IF cs = <<>> THEN <<>> ELSE InsertByScore(cs[1], SortByScore(Tail(cs)))

\* the indices the fusion loop runs over: the dense result, or the lexical top k when
\* no query embedding is available (retrieval.py 153-173)
Indices(r) ==
    IF r.embedding_ok THEN r.dense
    ELSE SubSeq(r.order, 1, IF r.top_k < Len(r.order) THEN r.top_k ELSE Len(r.order))

\* retrieval.py 175-200: the fusion loop and the final sort
hybrid_search(r) ==
    LET indices == Indices(r)
        cand(i) == [idx |-> indices[i],
                    score |-> rrf_score(i - 1, LexicalRank(r.order, indices[i]))]
        candidates == [i \in DOMAIN indices |-> cand(i)]
    IN  SortByScore(SelectSeq(candidates, LAMBDA c : c.idx < Len(r.lex)))

InitRRF ==
    /\ InitServices
    /\ cz = Off /\ ck = Off /\ sr = Off /\ gl = Off /\ rq = Off /\ ex = Off /\ al = Off /\ pg = Off
    /\ \E n \in 1..MaxRRFChunks, top_k \in RetrievalTopKs, ok \in BOOLEAN :
         \E lex \in [1..n -> 0..2] :
           \E order \in ArgsortDesc(lex),
              dense \in DenseResults(n, IF top_k < n THEN top_k ELSE n) :
                rr = [pc |-> "drawn", lex |-> lex, order |-> order, top_k |-> top_k,
                      embedding_ok |-> ok, dense |-> IF ok THEN dense ELSE <<>>,
                      out |-> <<>>]

HybridSearch ==
    /\ rr.pc = "drawn"
    /\ rr' = [rr EXCEPT !.pc = "done", !.out = hybrid_search(rr)]
    /\ UNCHANGED <<svars, cz, ck, sr, gl, rq, ex, al, pg>>

SpecRRF == InitRRF /\ [][HybridSearch]_vars

\* 0-based position of x in the sequence s
PosIn(s, x) == (CHOOSE i \in DOMAIN s : s[i] = x) - 1

C26_EmbeddingFailureEmpty ==
    (rr.pc = "done" /\ ~rr.embedding_ok) => rr.out = <<>>

----------------------------------------------------------------------------
(* SpecRerank: RetrievalService._rerank and                                *)
(* VectorRetrievalService.rerank_chunks (ask-maas-api) and rerank_results  *)
(* (expand.py) applied to a ranked list and one answer of the reranker     *)
(* service. A score is a fraction num / den, here in tenths.               *)

\* the longest list handed to a reranker
MaxRerankChunks == 3
\* the scores the model uses, in tenths
ScoreLevels == {2, 5, 9}

Score(tenths) == [num |-> tenths, den |-> 10]

\* the ranked lists: chunk i of the list has the id i
RankedLists ==
    UNION {[1..n -> {[id |-> i, score |-> Score(s)] : i \in {0}, s \in ScoreLevels}]
              : n \in 0..MaxRerankChunks}

WithIds(cs) == [i \in DOMAIN cs |-> [cs[i] EXCEPT !.id = i]]

\* what POST /rerank can do: raise, answer with another status, or answer 200 with
\* one {index, score} entry per text, in input order or in any other order
RerankReplies(n) ==
    {[kind |-> k, results |-> <<>>] : k \in {"raise", "status"}}
    \cup {[kind |-> "ok",
           results |-> [j \in 1..n |-> [index |-> p[j], score |-> Score(sc[j])]]]
             : p \in Orderings(0..(n - 1)), sc \in [1..n -> ScoreLevels]}

\* retrieval.py 245-249: candidates[idx].score = result['score'], a later entry winning
ApplyByIndex(candidates, results) ==
    [i \in DOMAIN candidates |->
        LET J == {j \in DOMAIN results : results[j].index = i - 1}
        IN  IF J = {} THEN candidates[i]
            ELSE [candidates[i] EXCEPT !.score = results[Max(J)].score]]

\* vector_retrieval.py 177-179: chunks[i].score = the score of entry i
ApplyByPosition(chunks, results) ==
    [i \in DOMAIN chunks |->
        IF i <= Len(results) THEN [chunks[i] EXCEPT !.score = results[i].score]
        ELSE chunks[i]]

\* mutant: the list is sorted by the scores it has, whatever the reranker did
rerank_sorting_always(candidates, reply) ==
    IF candidates = <<>> THEN <<>>
    ELSE IF reply.kind = "ok"
    THEN SortByScore(ApplyByIndex(candidates, reply.results))
    ELSE SortByScore(candidates)

\* RetrievalService._rerank (retrieval.py 224-259)
rerank(candidates, reply) ==
    IF candidates = <<>> THEN <<>>
    ELSE IF reply.kind = "ok"
    THEN SortByScore(ApplyByIndex(candidates, reply.results))
    ELSE candidates

\* mutant: the scores are updated and the list is left in its order
rerank_chunks_unsorted(chunks, reply) ==
    IF reply.kind = "ok" THEN ApplyByPosition(chunks, reply.results) ELSE chunks

\* VectorRetrievalService.rerank_chunks (vector_retrieval.py 158-190)
rerank_chunks(chunks, reply) ==
    IF reply.kind = "ok" THEN SortByScore(ApplyByPosition(chunks, reply.results))
    ELSE chunks

\* rerank_results (expand.py 84-122): the scores go to "rerank_score", which the
\* sort reads with the default 0; a document keeps its "score". The key
\* "rerank_score" is the empty sequence when absent and holds one score otherwise
rerank_results(documents, reply, reranker_url) ==
    IF ~reranker_url \/ documents = <<>> THEN documents
    ELSE IF reply.kind = "ok"
    THEN LET scored == [i \in DOMAIN documents |->
                          IF i <= Len(reply.results)
                          THEN [documents[i] EXCEPT !.rerank_score = <<reply.results[i].score>>]
                          ELSE documents[i]]
             keys == [i \in DOMAIN scored |->
                        [i |-> i,
                         score |-> IF scored[i].rerank_score = <<>> THEN Score(0)
                                   ELSE scored[i].rerank_score[1]]]
             sorted == SortByScore(keys)
         IN  [k \in DOMAIN sorted |-> scored[sorted[k].i]]
    ELSE documents

InitRerank ==
    /\ InitServices
    /\ cz = Off /\ ck = Off /\ sr = Off /\ gl = Off /\ rr = Off /\ al = Off /\ pg = Off
    /\ \E l \in RankedLists :
         \E reply \in RerankReplies(Len(l)) :
            \/ /\ rq = [pc |-> "drawn", fn |-> "none", chunks |-> WithIds(l),
                        reply |-> reply, out |-> <<>>]
               /\ ex = Off
            \/ /\ \E url \in BOOLEAN :
                    ex = [pc |-> "drawn", reranker_url |-> url,
                          documents |-> [i \in DOMAIN l |->
                              [id |-> i, score |-> l[i].score, rerank_score |-> <<>>]],
                          reply |-> reply, out |-> <<>>]
               /\ rq = Off

Rerank ==
    /\ rq.pc = "drawn"
    /\ rq' = [rq EXCEPT !.pc = "done", !.fn = "_rerank",
                        !.out = rerank(rq.chunks, rq.reply)]
    /\ UNCHANGED <<svars, cz, ck, sr, gl, rr, ex, al, pg>>

RerankChunks ==
    /\ rq.pc = "drawn"
    /\ rq' = [rq EXCEPT !.pc = "done", !.fn = "rerank_chunks",
                        !.out = rerank_chunks(rq.chunks, rq.reply)]
    /\ UNCHANGED <<svars, cz, ck, sr, gl, rr, ex, al, pg>>

RerankResults ==
    /\ ex.pc = "drawn"
    /\ ex' = [ex EXCEPT !.pc = "done",
                        !.out = rerank_results(ex.documents, ex.reply, ex.reranker_url)]
    /\ UNCHANGED <<svars, cz, ck, sr, gl, rr, rq, al, pg>>

NextRerank == Rerank \/ RerankChunks \/ RerankResults

SpecRerank == InitRerank /\ [][NextRerank]_vars

\* the reply has one entry per text, entry j for text j
InInputOrder(reply, n) ==
    /\ reply.kind = "ok"
    /\ Len(reply.results) = n
    /\ \A j \in 1..n : reply.results[j].index = j - 1

C23_RerankOnFailure ==
    /\ (rq.pc = "done" /\ rq.reply.kind # "ok") => rq.out = rq.chunks
    /\ (ex.pc = "done" /\ ex.reply.kind # "ok") => ex.out = ex.documents

\* the reranker answered with an error status for three chunks that were not in
\* descending order of score, and they came back as they were
C23_Witness ==
    /\ rq.pc = "done" /\ rq.reply.kind = "status"
    /\ Len(rq.chunks) = 3
    /\ ~ScoreGeq(rq.chunks[1].score, rq.chunks[2].score)
    /\ rq.out = rq.chunks


\* C21 (SpecRRF): a chunk among the top_k by lexical score that the dense search did
\* not return is still a fused candidate, scored with the dense rank len(candidates)
\* (the number of chunks the dense search returned) and its own lexical rank.
C21_AbsentStillFused ==
    (rr.pc = "done" /\ rr.embedding_ok) =>
        LET n == Len(rr.order)
            lexTop == {rr.order[i] : i \in 1..(IF rr.top_k < n THEN rr.top_k ELSE n)}
            inDense(idx) == \E i \in DOMAIN rr.dense : rr.dense[i] = idx
        IN  \A idx \in lexTop :
              ~inDense(idx) =>
                \E k \in DOMAIN rr.out :
                    /\ rr.out[k].idx = idx
                    /\ rr.out[k].score =
                         rrf_score(Len(rr.dense), LexicalRank(rr.order, idx))

----------------------------------------------------------------------------
(* SpecDiversify: VectorRetrievalService._diversify_results (ask-maas-api) *)
(* applied to the list retrieve_with_vectors has sorted by descending      *)
(* score. Scores are in tenths.                                            *)

\* the longest list of mixed scores that is diversified
MaxDivChunks == 5
\* the length of the list of low scores from two pages
ExampleChunks == 10
\* "max_per_page = 3  # Maximum chunks from same page"
max_per_page == 3
\* item["score"] > 0.8
HighScore == Score(8)
\* the top_k requested
DiversifyTopKs == {2, 5, 10}
Pages == {UA, UB}

\* the lists sorted by descending score, as the sort of line 122 leaves them
SortedItems(lens, levels) ==
    UNION {{l \in [1..n -> [page_url : Pages, score : {Score(s) : s \in levels}]] :
              \A i, j \in 1..n : i < j => ScoreGeq(l[i].score, l[j].score)}
           : n \in lens}

ScoreAbove(x, y) == x.num * y.den > y.num * x.den

\* the loop of _diversify_results (vector_retrieval.py 198-211) over the items left
RECURSIVE DiversifyLoop(_, _, _, _)
DiversifyLoop(items, top_k, selected, page_counts) ==
    IF items = <<>> THEN selected
    ELSE LET item == items[1]
         IN  IF page_counts[item.page_url] < max_per_page
                \/ ScoreAbove(item.score, HighScore)
             THEN LET sel == Append(selected, item)
                      counts == [page_counts EXCEPT
                                    ![item.page_url] = page_counts[item.page_url] + 1]
                  IN  IF Len(sel) >= top_k THEN sel
                      ELSE DiversifyLoop(Tail(items), top_k, sel, counts)
             ELSE DiversifyLoop(Tail(items), top_k, selected, page_counts)

\* mutant: the first top_k items are selected, whatever their pages
diversify_results_first_k(chunks_with_scores, top_k) ==
    SubSeq(chunks_with_scores, 1,
           IF top_k < Len(chunks_with_scores) THEN top_k ELSE Len(chunks_with_scores))

\* _diversify_results (vector_retrieval.py 192-213)
diversify_results(chunks_with_scores, top_k) ==
    DiversifyLoop(chunks_with_scores, top_k, <<>>, [p \in Pages |-> 0])

InitDiversify ==
    /\ InitServices
    /\ cz = Off /\ ck = Off /\ sr = Off /\ gl = Off /\ rr = Off /\ ex = Off /\ al = Off /\ pg = Off
    /\ \E items \in SortedItems(0..MaxDivChunks, {5, 8, 9})
                      \cup SortedItems({ExampleChunks}, {5}),
          top_k \in DiversifyTopKs :
            rq = [pc |-> "drawn", items |-> items, top_k |-> top_k, out |-> <<>>]

Diversify ==
    /\ rq.pc = "drawn"
    /\ rq' = [rq EXCEPT !.pc = "done", !.out = diversify_results(rq.items, rq.top_k)]
    /\ UNCHANGED <<svars, cz, ck, sr, gl, rr, ex, al, pg>>

SpecDiversify == InitDiversify /\ [][Diversify]_vars

\* C24 (SpecDiversify): the selected list holds at most 3 chunks of score <= 0.8 from
\* any one page, and a chunk selected after three others of its page has a score
\* above 0.8.
C24_Diversified ==
    rq.pc = "done" =>
        /\ \A p \in Pages :
              Cardinality({k \in DOMAIN rq.out :
                              /\ rq.out[k].page_url = p
                              /\ ~ScoreAbove(rq.out[k].score, Score(8))}) <= 3
        /\ \A k \in DOMAIN rq.out :
              Cardinality({j \in 1..(k - 1) : rq.out[j].page_url = rq.out[k].page_url}) >= 3
                 => ScoreAbove(rq.out[k].score, Score(8))

\* ten chunks of score 0.5, seven of them from one page, were cut to a top 5 with three
\* chunks of that page and two of the other
C24_Witness ==
    /\ rq.pc = "done" /\ rq.top_k = 5
    /\ Len(rq.items) = 10
    /\ Cardinality({i \in DOMAIN rq.items : rq.items[i].page_url = UA}) = 7
    /\ Len(rq.out) = 5
    /\ Cardinality({k \in DOMAIN rq.out : rq.out[k].page_url = UA}) = 3


----------------------------------------------------------------------------
(* SpecChat: one request served by chat_endpoint (routers/chat.py) or by   *)
(* chat_unified (routers/chat_unified.py): the SSE messages it sends and   *)
(* the calls it makes to the generation service. A message is              *)
(* [type, content, citations]: content lists the strings concatenated into *)
(* the text shown to the user, citations the ids of the chunks cited.      *)

\* the most chunks a retrieval returns
MaxChatChunks == 4
\* "retrieved_chunks[:15]" and "retrieved_chunks[:3]"
KEEP_AFTER_RERANK == 15
TOP_LINKS == 3
\* the scores 0.02, 0.2 and 0.5
ChatScores == {[num |-> 2, den |-> 100], [num |-> 2, den |-> 10], [num |-> 5, den |-> 10]}
\* "retrieved_chunks[0].score < 0.05" and "retrieved_chunks[0].score < 0.3"
ChatMinScore == [num |-> 5, den |-> 100]
UnifiedMinScore == [num |-> 3, den |-> 10]
\* str(e) of an exception raised inside the handler
ExcText == "exc"

Take(s, n) == SubSeq(s, 1, IF n < Len(s) THEN n ELSE Len(s))

Msg(type, content, citations) == [type |-> type, content |-> content, citations |-> citations]
Ids(chunks) == [i \in DOMAIN chunks |-> chunks[i].id]

\* what the vector search returns when the query was embedded: chunks by descending score
ChatHits ==
    UNION {{l \in [1..n -> [id : 1..n, score : ChatScores]] :
              /\ \A i \in 1..n : l[i].id = i
              /\ \A i, j \in 1..n : i < j => ScoreGeq(l[i].score, l[j].score)}
           : n \in 0..MaxChatChunks}

\* the answers of POST /rerank seen by the handler: a failure, or one score per text
ChatReplies(n) ==
    {[kind |-> k, results |-> <<>>] : k \in {"raise", "status"}}
    \cup {[kind |-> "ok", results |-> [j \in 1..n |-> [index |-> j - 1, score |-> sc[j]]]]
             : sc \in [1..n -> ChatScores]}

\* the fixed texts: chat.py 126, settings.ABSTAIN_MESSAGE, chat_unified.py 93 and 181,
\* and the two texts llm.py yields when generation fails
FixedMessages ==
    {<<"I couldn't find relevant information to answer your question.">>,
     <<"ABSTAIN_MESSAGE">>,
     <<"I don't have enough information to answer that question.">>,
     <<"An error occurred processing your request">>,
     <<"I encountered an error generating a response. Please try again.">>,
     <<"An error occurred while generating the response.">>}

\* the handler that sends the error message and forgets the done message
on_exception_error_only(content) == <<Msg("error", content, <<>>)>>

\* "except Exception as e" of both generators (chat.py 326-339, chat_unified.py
\* 177-184): the error message, then done
on_exception(content) == <<Msg("error", content, <<>>), Msg("done", <<>>, <<>>)>>

\* generate_response of chat_endpoint (chat.py 81-340)
chat_endpoint(r) ==
    LET start == Msg("start", <<>>, <<>>)
        done == Msg("done", <<>>, <<>>)
        found == IF r.embed_ok THEN r.hits ELSE <<>>
        retrieved == IF Len(found) > 0
                     THEN Take(rerank_chunks(found, r.reply), KEEP_AFTER_RERANK)
                     ELSE found
        snippets == r.expansion = "snippets"
        failed == on_exception(<<"An error occurred: ", ExcText>>)
        tokens == Msg("text", IF r.llm_ok THEN <<"token">>
                              ELSE <<"An error occurred while generating the response.">>,
                      <<>>)
        cited == Msg("citation", <<>>,
                     Ids(Take(retrieved, TOP_LINKS)) \o (IF snippets THEN <<0>> ELSE <<>>))
    IN  IF retrieved = <<>>
        THEN [retrieved |-> retrieved, llm_calls |-> 0,
              msgs |-> <<start,
                         Msg("text", <<"I couldn't find relevant information to answer your question.">>, <<>>),
                         done>>]
        ELSE IF ~ScoreGeq(retrieved[1].score, ChatMinScore) /\ ~snippets
        THEN [retrieved |-> retrieved, llm_calls |-> 0,
              msgs |-> <<start, Msg("text", <<"ABSTAIN_MESSAGE">>, <<>>),
                         Msg("citation", <<>>, Ids(Take(retrieved, TOP_LINKS))), done>>]
        ELSE IF r.fault = "context"
        THEN [retrieved |-> retrieved, llm_calls |-> 0, msgs |-> <<start>> \o failed]
        ELSE IF r.fault = "citations"
        THEN [retrieved |-> retrieved, llm_calls |-> 1,
              msgs |-> <<start, tokens>> \o failed]
        ELSE [retrieved |-> retrieved, llm_calls |-> 1,
              msgs |-> <<start, tokens, cited, done>>]

\* generate_response of chat_unified (chat_unified.py 38-184); the unified service has
\* no rerank_chunks, so the test of line 71 fails and the search order stands; the
\* services are built inside the try, before the start message (lines 40-51)
chat_unified(r) ==
    LET start == Msg("start", <<>>, <<>>)
        done == Msg("done", <<>>, <<>>)
        retrieved == IF r.embed_ok THEN r.hits ELSE <<>>
        failed == on_exception(<<"An error occurred processing your request">>)
        tokens == Msg("text", IF r.llm_ok THEN <<"token">>
                              ELSE <<"An error occurred while generating the response.">>,
                      <<>>)
        cited == Msg("citation", <<>>, Ids(SortByScore(retrieved)))
    IN  IF r.fault = "services"
        THEN [retrieved |-> <<>>, llm_calls |-> 0, msgs |-> failed]
        ELSE IF retrieved = <<>> \/ ~ScoreGeq(retrieved[1].score, UnifiedMinScore)
        THEN [retrieved |-> retrieved, llm_calls |-> 0,
              msgs |-> <<start,
                         Msg("text", <<"I don't have enough information to answer that question.">>, <<>>),
                         done>>]
        ELSE IF r.fault = "context"
        THEN [retrieved |-> retrieved, llm_calls |-> 0, msgs |-> <<start>> \o failed]
        ELSE IF r.fault = "citations"
        THEN [retrieved |-> retrieved, llm_calls |-> 1,
              msgs |-> <<start, tokens>> \o failed]
        ELSE [retrieved |-> retrieved, llm_calls |-> 1,
              msgs |-> <<start, tokens, cited, done>>]

\* a request: whether the query could be embedded, the chunks the search finds, the
\* reranker's answer, the outcome of the citation expansion, whether generation
\* succeeds, and where an exception is raised in the handler, if anywhere
InitChat ==
    /\ InitServices
    /\ cz = Off /\ ck = Off /\ sr = Off /\ gl = Off /\ rr = Off /\ ex = Off /\ al = Off /\ pg = Off
    /\ \E hits \in ChatHits, ok, llm_ok \in BOOLEAN,
          expansion \in {"none", "snippets", "error"},
          fault \in {"none", "services", "context", "citations"} :
         \E reply \in ChatReplies(Len(hits)) :
            rq = [pc |-> "drawn", site |-> "none", embed_ok |-> ok, hits |-> hits,
                  reply |-> reply, expansion |-> expansion, llm_ok |-> llm_ok,
                  fault |-> fault, out |-> <<>>]

ChatEndpoint ==
    /\ rq.pc = "drawn"
    /\ rq' = [rq EXCEPT !.pc = "done", !.site = "chat", !.out = chat_endpoint(rq)]
    /\ UNCHANGED <<svars, cz, ck, sr, gl, rr, ex, al, pg>>

ChatUnified ==
    /\ rq.pc = "drawn"
    /\ rq' = [rq EXCEPT !.pc = "done", !.site = "chat_unified", !.out = chat_unified(rq)]
    /\ UNCHANGED <<svars, cz, ck, sr, gl, rr, ex, al, pg>>

NextChat == ChatEndpoint \/ ChatUnified

SpecChat == InitChat /\ [][NextChat]_vars

\* C25 (SpecChat): at both chat call sites, when the top retrieved chunk scores below
\* the site's minimum and the expansion found no snippets, the response is the start
\* message, the site's fixed refusal, the top-3 chunks as citations and done, and the
\* generation service is not called.
C25_Abstention ==
    (/\ rq.pc = "done"
     /\ rq.out.retrieved # <<>>
     /\ ~ScoreGeq(rq.out.retrieved[1].score,
                  IF rq.site = "chat" THEN ChatMinScore ELSE UnifiedMinScore)
     /\ rq.expansion # "snippets")
    => /\ rq.out.llm_calls = 0
       /\ Len(rq.out.msgs) = 4
       /\ rq.out.msgs[2].type = "text"
       /\ rq.out.msgs[2].content \in FixedMessages
       /\ rq.out.msgs[3] = Msg("citation", <<>>, Ids(Take(rq.out.retrieved, 3)))
       /\ rq.out.msgs[4].type = "done"

\* C27 (SpecChat): whatever exception is raised while a chat request is served, every
\* message sent carries either generated tokens or one of the fixed texts, and none
\* contains the text of the exception.
C27_FixedFailureMessage ==
    rq.pc = "done" =>
        \A k \in DOMAIN rq.out.msgs :
            /\ rq.out.msgs[k].type = "error" => rq.out.msgs[k].content \in FixedMessages
            /\ \A i \in DOMAIN rq.out.msgs[k].content : rq.out.msgs[k].content[i] # ExcText

\* C33 (SpecChat): the messages of a response that is not cancelled end with done and
\* hold no other done, every error message is followed at once by done, and every
\* text message comes after the start message and before any citation message.
C33_StreamProtocol ==
    rq.pc = "done" =>
        LET m == rq.out.msgs
        IN  /\ m # <<>>
            /\ \A k \in DOMAIN m : m[k].type = "done" <=> k = Len(m)
            /\ \A k \in DOMAIN m : m[k].type = "error" => k + 1 = Len(m)
            /\ \A k \in DOMAIN m :
                  m[k].type = "text" =>
                      /\ \E j \in 1..(k - 1) : m[j].type = "start"
                      /\ \A j \in 1..(k - 1) : m[j].type # "citation"

\* an exception after the tokens were sent: start, text, error, done
C33_Witness ==
    /\ rq.pc = "done"
    /\ rq.fault = "citations"
    /\ Len(rq.out.msgs) = 4
    /\ rq.out.msgs[2].type = "text"
    /\ rq.out.msgs[3].type = "error"
    /\ rq.out.msgs[4].type = "done"


----------------------------------------------------------------------------
(* SpecExpand: expand_context (ask_maas_orchestrator_patch/expand.py)      *)
(* applied to the citations its semantic search finds, the reranker's      *)
(* answer and the links of the base chunks.                                *)

\* the most citations the search returns (the request asks for "limit": 5)
MaxFound == 4
\* "citations[:3]", "rerank_results(query, citations)[:3]" and "[...][:3]" of line 288
KEEP_CITATIONS == 3

\* the search results: citation i has the id i, a source and no rerank_score yet
FoundCitations ==
    UNION {{l \in [1..n -> [id : 1..n, source_url : {UA, UB}, rerank_score : {<<>>}]] :
              \A i \in 1..n : l[i].id = i}
           : n \in 0..MaxFound}

\* format_citation_snippet (expand.py 179-186): "(source: domain/title)\ntext\n"
format_citation_snippet(citation) ==
    <<"(source: ", citation.source_url.host, "/", citation.id, ")">>

\* expand_context (expand.py 189-313). The names unique_urls and chunk_ids read at
\* lines 288 and 293 are bound nowhere in the module: reaching line 288 raises
\* NameError, which the handler of line 307 catches, so nothing is enqueued and the
\* formatting loop of lines 303-305 is not run.
expand_context(e) ==
    LET found == IF e.search_ok THEN e.found ELSE <<>>
        citations == IF e.slow THEN Take(found, KEEP_CITATIONS)
                     ELSE Take(rerank_results(found, e.reply, TRUE), KEEP_CITATIONS)
        name_error == Len(citations) < KEEP_CITATIONS
    IN  [snippets |-> IF name_error THEN <<>>
                      ELSE [i \in DOMAIN citations |-> format_citation_snippet(citations[i])],
         citations |-> citations,
         enqueue_calls |-> <<>>,
         metadata |-> [citations_found |-> Len(citations), urls_enqueued |-> 0]]

InitExpand ==
    /\ InitServices
    /\ cz = Off /\ ck = Off /\ sr = Off /\ gl = Off /\ rr = Off /\ rq = Off /\ al = Off /\ pg = Off
    /\ \E found \in FoundCitations, search_ok, slow, enqueue_ok \in BOOLEAN,
          links \in {<<>>, <<UA, UC>>, <<UC, UD, UE, UB>>} :
         \E reply \in ChatReplies(Len(found)) :
            ex = [pc |-> "drawn", found |-> found, search_ok |-> search_ok, slow |-> slow,
                  reply |-> reply, links |-> links, enqueue_ok |-> enqueue_ok,
                  out |-> <<>>]

ExpandContext ==
    /\ ex.pc = "drawn"
    /\ ex' = [ex EXCEPT !.pc = "done", !.out = expand_context(ex)]
    /\ UNCHANGED <<svars, cz, ck, sr, gl, rr, rq, al, pg>>

SpecExpand == InitExpand /\ [][ExpandContext]_vars

\* C28 (SpecExpand): expand_context returns one snippet per citation it retains, at
\* most 3, each the formatted citation, and metadata.citations_found is the number
\* of snippets returned.
C28_SnippetPerCitation ==
    ex.pc = "done" =>
        /\ Len(ex.out.citations) <= 3
        /\ Len(ex.out.snippets) = Len(ex.out.citations)
        /\ \A i \in DOMAIN ex.out.snippets :
              ex.out.snippets[i] = format_citation_snippet(ex.out.citations[i])
        /\ ex.out.metadata.citations_found = Len(ex.out.snippets)

\* C29 (SpecExpand): when fewer than 3 citations are retained, the first up to 3
\* links of the base chunks that are not sources of a retained citation are
\* enqueued, and metadata.urls_enqueued counts the enqueue calls that returned a job.
C29_EnqueueMissing ==
    (ex.pc = "done" /\ Len(ex.out.citations) < 3) =>
        LET processed == {ex.out.citations[i].source_url : i \in DOMAIN ex.out.citations}
            unprocessed == Take(SelectSeq(ex.links, LAMBDA u : u \notin processed), 3)
        IN  /\ ex.out.enqueue_calls = unprocessed
            /\ ex.out.metadata.urls_enqueued = IF ex.enqueue_ok THEN Len(unprocessed) ELSE 0


\* C31 (SpecIdentity): whatever jobs have run, the collection holds at most one
\* point for each pair (source_url, chunk_index).
C31_OnePointPerSourceChunk ==
    \A p, q \in store :
        (p.source_url = q.source_url /\ p.chunk_index = q.chunk_index) => p = q

----------------------------------------------------------------------------
(* SpecAllow: load_allowlist_patterns and is_url_allowed (libs/links.py)   *)
(* with the module global ALLOWLIST_PATTERNS and a ConfigMap file that may *)
(* be missing, hold no pattern, or be replaced while the process runs.     *)

\* is_url_allowed calls made in one behaviour
MaxAllowCalls == 4

\* the allowlist file: absent, "patterns: []", or one pattern for blocked.com
AllowlistFiles ==
    {[exists |-> FALSE, patterns |-> <<>>],
     [exists |-> TRUE, patterns |-> <<>>],
     [exists |-> TRUE, patterns |-> <<[hosts |-> {"blocked.com"}, slash |-> TRUE]>>]}

\* the urls asked about: allowed by default, written in capitals, and blocked.com
AllowUrls == {UA, UAf, UB, Url("HTTPS", "GITHUB.COM", <<"/", "a">>, <<>>, ""), UX}

\* load_allowlist_patterns (links.py 17-73): the cached list when there is one, else
\* the file's patterns, else the defaults
LoadPatterns(a) ==
    IF a.loaded THEN a.ALLOWLIST_PATTERNS
    ELSE IF a.file.exists /\ a.file.patterns # <<>> THEN a.file.patterns
    ELSE DefaultPatterns

\* the body of is_url_allowed after the load (links.py 80-89)
MatchesAny(patterns, u) ==
    IF patterns = <<>> THEN TRUE
    ELSE \E i \in 1..Len(patterns) : PatternMatches(patterns[i], u)

InitAllow ==
    /\ InitServices
    /\ cz = Off /\ ck = Off /\ sr = Off /\ gl = Off /\ rr = Off /\ rq = Off /\ ex = Off
    /\ pg = Off
    /\ \E f \in AllowlistFiles :
          al = [file |-> f, loaded |-> FALSE, ALLOWLIST_PATTERNS |-> <<>>,
                configured |-> <<>>, used |-> <<>>, url |-> NoUrl, result |-> FALSE]

\* one call of is_url_allowed(u); configured is the file's list at the first load
IsUrlAllowed(u) ==
    /\ al # Off
    /\ LET patterns == LoadPatterns(al)
       IN  al' = [al EXCEPT !.loaded = TRUE, !.ALLOWLIST_PATTERNS = patterns,
                            !.configured = IF al.loaded THEN al.configured
                                           ELSE al.file.patterns,
                            !.used = Append(al.used, patterns),
                            !.url = u, !.result = MatchesAny(patterns, u)]
    /\ UNCHANGED <<svars, cz, ck, sr, gl, rr, rq, ex, pg>>

\* the ConfigMap file is replaced
ReplaceFile(f) ==
    /\ al # Off
    /\ al.file # f
    /\ al' = [al EXCEPT !.file = f]
    /\ UNCHANGED <<svars, cz, ck, sr, gl, rr, rq, ex, pg>>

NextAllow ==
    \/ \E u \in AllowUrls : Len(al.used) < MaxAllowCalls /\ IsUrlAllowed(u)
    \/ \E f \in AllowlistFiles : ReplaceFile(f)

SpecAllow == InitAllow /\ [][NextAllow]_vars

\* C32 (SpecAllow): is_url_allowed(url) is true exactly when the configured pattern
\* list is empty or one of its patterns matches the url, whatever the case of the
\* url; and every call uses the list the first call loaded.
C32_AllowlistDecision ==
    (al # Off /\ al.used # <<>>) =>
        /\ al.result = (\/ al.configured = <<>>
                        \/ \E i \in DOMAIN al.configured :
                              PatternMatches(al.configured[i], al.url))
        /\ \A i \in DOMAIN al.used : al.used[i] = al.used[1]


----------------------------------------------------------------------------
(* SpecChunkLoop: the while loop of chunk_text (jobs.py 171-184) taken one *)
(* iteration at a time, for every max_length >= 1 and 0 <= overlap <       *)
(* max_length of the sizes below. ck holds the text, the parameters, the   *)
(* start of the window about to be cut and the start of the one before it  *)
(* (-1 before the first); the list of chunks is not kept.                  *)

\* the longest text drawn, in characters
MaxLoopTextLen == 6
\* the values of max_length drawn
LoopMaxLens == {1, 2, 5}

InitChunkLoop ==
    /\ InitServices
    /\ cz = Off /\ sr = Off /\ gl = Off /\ rr = Off /\ rq = Off /\ ex = Off /\ al = Off /\ pg = Off
    /\ \E n \in 0..MaxLoopTextLen, m \in LoopMaxLens :
          \E t \in [1..n -> {"x", ".", " ", "\n"}], o \in 0..(m - 1) :
             ck = [pc |-> "called", text |-> t, maxLen |-> m, overlap |-> o,
                   start |-> 0, prev |-> -1]

\* "if len(text) <= max_length: return [text]", else "start = 0" (jobs.py 165-169)
ChunkCall ==
    /\ ck.pc = "called"
    /\ ck' = [ck EXCEPT !.pc = IF Len(ck.text) <= ck.maxLen THEN "returned" ELSE "while"]
    /\ UNCHANGED <<svars, cz, sr, gl, rr, rq, ex, al, pg>>

\* one iteration of "while start < len(text)" (jobs.py 171-184)
ChunkIteration ==
    /\ ck.pc = "while"
    /\ ck.start < Len(ck.text)
    /\ ck' = [ck EXCEPT !.prev = ck.start,
                        !.start = NextStart(ck.text, ChunkEnd(ck.text, ck.maxLen, ck.start),
                                            ck.overlap)]
    /\ UNCHANGED <<svars, cz, sr, gl, rr, rq, ex, al, pg>>

\* the loop test fails: "return chunks" (jobs.py 186)
ChunkReturn ==
    /\ ck.pc = "while"
    /\ ck.start >= Len(ck.text)
    /\ ck' = [ck EXCEPT !.pc = "returned"]
    /\ UNCHANGED <<svars, cz, sr, gl, rr, rq, ex, al, pg>>

SpecChunkLoop == InitChunkLoop /\ [][ChunkCall \/ ChunkIteration \/ ChunkReturn]_vars

\* C34 (SpecChunkLoop): for every text, max_length >= 1 and 0 <= overlap < max_length,
\* each window of chunk_text starts strictly after the start of the window before it,
\* so the loop ends after at most len(text) chunks.
C34_WindowsAdvance ==
    ck.pc = "while" => ck.start > ck.prev


----------------------------------------------------------------------------
(* SpecCache: the page indexes kept in Redis by CacheService (cache.py)    *)
(* and two calls of IngestService.add_to_page_index (ingest.py 464-509),   *)
(* whose read and write are separate awaits. A string is the sequence of   *)
(* its pieces, so that one key is a prefix of another exactly when its     *)
(* text is; a page index is [page_url, etag, chunks, index], its index     *)
(* being <<>> for None or <<vectors>>; pg.last is the call made last.      *)

\* invalidate_page_index calls made in one behaviour
MaxInvalidations == 1

\* two pages: the second url continues the first with a port and a path
CachePages == {<<"https://example.com">>, <<"https://example.com", ":", "8443/docs">>}

\* config.py get_cache_key: f"ask-maas:index:{page_url}:{etag}"
get_cache_key(page_url, etag) == <<"ask-maas", ":", "index", ":">> \o page_url \o <<":", etag>>

\* the first character of each piece, as Python's sorted compares strings
CodePoint(piece) ==
    CASE piece = "8443/docs" -> 56 [] piece = ":" -> 58 [] piece = "ask-maas" -> 97
      [] piece = "e1" -> 101 [] piece = "https://example.com" -> 104
      [] piece = "index" -> 105 [] piece = "latest" -> 108

RECURSIVE StrLess(_, _)
StrLess(a, b) ==
    IF a = <<>> THEN b # <<>>
    ELSE IF b = <<>> THEN FALSE
    ELSE IF Head(a) = Head(b) THEN StrLess(Tail(a), Tail(b))
    ELSE CodePoint(Head(a)) < CodePoint(Head(b))

\* redis KEYS "ask-maas:index:{page_url}:*" (cache.py 215-216; the escaped pattern of
\* cache.py 119-121 matches the same keys): the keys that start with the text before "*"
Keys(redis, page_url) ==
    LET prefix == <<"ask-maas", ":", "index", ":">> \o page_url \o <<":">>
    IN  {e.key : e \in {x \in redis : /\ Len(x.key) >= Len(prefix)
                                       /\ SubSeq(x.key, 1, Len(prefix)) = prefix}}

Get(redis, key) == {e.val : e \in {x \in redis : x.key = key}}

\* CacheService.get_page_index(page_url) without etag (cache.py 111-132): None as <<>>
get_page_index(redis, page_url) ==
    LET latest == Get(redis, get_cache_key(page_url, "latest"))
        keys == Keys(redis, page_url)
    IN  IF latest # {} THEN <<CHOOSE v \in latest : TRUE>>
        ELSE IF keys # {}
        THEN LET latest_key == CHOOSE k \in keys : \A l \in keys : l = k \/ StrLess(l, k)
             IN  <<CHOOSE v \in Get(redis, latest_key) : TRUE>>
        ELSE <<>>

\* CacheService.store_page_index (cache.py 159-186): the etag key, then the latest key
store_page_index(redis, page_url, etag, index, chunks) ==
    LET val == [page_url |-> page_url, etag |-> etag, chunks |-> chunks, index |-> index]
        keys == {get_cache_key(page_url, etag), get_cache_key(page_url, "latest")}
    IN  {e \in redis : e.key \notin keys} \cup {[key |-> k, val |-> val] : k \in keys}

\* CacheService.invalidate_page_index (cache.py 214-220)
invalidate_page_index(redis, page_url) ==
    {e \in redis : e.key \notin Keys(redis, page_url)}

\* the embeddings a caller passes for its chunks (routers/ingest.py 571, 700)
Embeddings(chunks) == [i \in DOMAIN chunks |-> [of |-> chunks[i]]]

\* the page indexes in Redis at the start, each stored by store_page_index with one
\* chunk: with its vector index, or without one as the ingestion without FAISS left it
StoredPages ==
    {[page_url |-> u, etag |-> "e1", chunks |-> <<"c0">>, index |-> ix]
        : u \in CachePages, ix \in {<<>>, <<Embeddings(<<"c0">>)>>}}

InitCache ==
    /\ InitServices
    /\ cz = Off /\ ck = Off /\ sr = Off /\ gl = Off /\ rr = Off /\ rq = Off /\ ex = Off
    /\ al = Off
    /\ \E S \in SUBSET StoredPages, ua, ub \in CachePages :
          /\ \A x, y \in S : x.page_url = y.page_url => x = y
          /\ LET redis == UNION {store_page_index({}, v.page_url, v.etag, v.index, v.chunks)
                                    : v \in S}
                 call(u, c) == [pc |-> "called", page_url |-> u, new_chunks |-> <<c>>,
                                page_index |-> <<>>, wrote |-> <<>>]
             IN  pg = [redis |-> redis, before |-> redis, initial |-> redis,
                       last |-> [op |-> "none", page_url |-> <<>>], invalidations |-> 0,
                       t |-> [k \in {"A", "B"} |-> call(IF k = "A" THEN ua ELSE ub,
                                                       IF k = "A" THEN "a" ELSE "b")]]

\* add_to_page_index up to its first await: the read (ingest.py 474-476); without a
\* page index the call returns
AddRead(k) ==
    /\ pg # Off
    /\ pg.t[k].pc = "called"
    /\ LET page_index == get_page_index(pg.redis, pg.t[k].page_url)
       IN  pg' = [pg EXCEPT !.t[k].pc = IF page_index = <<>> THEN "done" ELSE "read",
                            !.t[k].page_index = page_index,
                            !.last = [op |-> "read", page_url |-> pg.t[k].page_url]]
    /\ UNCHANGED <<svars, cz, ck, sr, gl, rr, rq, ex, al>>

\* the rest of add_to_page_index (ingest.py 477-509): the chunks are joined, the
\* vectors of the existing chunks are reconstructed from the index when there is one
\* (reconstruct raises beyond the last vector), the index is rebuilt and stored
AddWrite(k) ==
    /\ pg # Off
    /\ pg.t[k].pc = "read"
    /\ LET c == pg.t[k]
           page_index == c.page_index[1]
           existing_chunks == page_index.chunks
           existing_index == page_index.index
           new_embeddings == Embeddings(c.new_chunks)
           all_chunks == existing_chunks \o c.new_chunks
           raises == existing_index # <<>> /\ Len(existing_index[1]) < Len(existing_chunks)
           all_embeddings ==
               IF existing_index # <<>>
               THEN SubSeq(existing_index[1], 1, Len(existing_chunks)) \o new_embeddings
               ELSE new_embeddings
           val == [page_url |-> c.page_url, etag |-> page_index.etag,
                   chunks |-> all_chunks, index |-> <<all_embeddings>>]
       IN  IF raises
           THEN pg' = [pg EXCEPT !.t[k].pc = "raised",
                                 !.last = [op |-> "add", page_url |-> c.page_url]]
           ELSE pg' = [pg EXCEPT !.t[k].pc = "done", !.t[k].wrote = <<val>>,
                                 !.before = pg.redis,
                                 !.redis = store_page_index(pg.redis, c.page_url,
                                               page_index.etag, <<all_embeddings>>, all_chunks),
                                 !.last = [op |-> "add", page_url |-> c.page_url]]
    /\ UNCHANGED <<svars, cz, ck, sr, gl, rr, rq, ex, al>>

\* one call of invalidate_page_index(u)
Invalidate(u) ==
    /\ pg # Off
    /\ pg.invalidations < MaxInvalidations
    /\ pg' = [pg EXCEPT !.before = pg.redis,
                        !.redis = invalidate_page_index(pg.redis, u),
                        !.invalidations = @ + 1,
                        !.last = [op |-> "invalidate", page_url |-> u]]
    /\ UNCHANGED <<svars, cz, ck, sr, gl, rr, rq, ex, al>>

NextCache ==
    \/ \E k \in {"A", "B"} : AddRead(k)
    \/ \E k \in {"A", "B"} : AddWrite(k)
    \/ \E u \in CachePages : Invalidate(u)

SpecCache == InitCache /\ [][NextCache]_vars

\* the chunks of a page index read from Redis; none when there is no page index
ChunksOf(page_index) ==
    IF page_index = <<>> THEN {}
    ELSE {page_index[1].chunks[i] : i \in DOMAIN page_index[1].chunks}

\* C37 (SpecCache): when two add_to_page_index calls for one page that had a page
\* index have both completed and nothing was invalidated, the page index stored for
\* the page holds the chunks it had before and the new chunks of both calls.
C37_NoLostAppend ==
    (/\ pg # Off
     /\ pg.invalidations = 0
     /\ pg.t["A"].page_url = pg.t["B"].page_url
     /\ \A k \in {"A", "B"} : pg.t[k].pc = "done" /\ pg.t[k].wrote # <<>>)
    => ChunksOf(get_page_index(pg.redis, pg.t["A"].page_url))
          = ChunksOf(get_page_index(pg.initial, pg.t["A"].page_url)) \cup {"a", "b"}

\* C38 (SpecCache): the page index a call of add_to_page_index wrote holds one vector
\* for each of its chunks, vector i being the embedding of chunk i, whether or not
\* the page index it read had a vector index.
C38_IndexAlignedWithChunks ==
    pg # Off =>
        \A k \in {"A", "B"} :
            pg.t[k].wrote # <<>> =>
                pg.t[k].wrote[1].index = <<Embeddings(pg.t[k].wrote[1].chunks)>>

\* C39 (SpecCache): right after invalidate_page_index(u), get_page_index(u) finds
\* nothing and every entry of another page is as it was before the call.
C39_InvalidateOnePage ==
    (pg # Off /\ pg.last.op = "invalidate") =>
        /\ get_page_index(pg.redis, pg.last.page_url) = <<>>
        /\ \A e \in pg.before : e.val.page_url # pg.last.page_url => e \in pg.redis

====
